---- MODULE Spec2Model ----
(***************************************************************************)
(* Model of the CVTM archive tool: the empty-archive writer                *)
(* (archive/common.go, WriteEmptyArchive and its helpers) and the          *)
(* extractor (readArchiveHeader, checkArchiveHeader, findEnd, readEnding,  *)
(* extractImage, ExtractArchive).                                          *)
(*                                                                         *)
(* Byte contents are modelled structurally.  A file is a list of written   *)
(* extents (byte offset, byte count, content) plus its length; the header  *)
(* bytes are kept as the entries they encode, with the fields the reader   *)
(* looks at byte-wise (magic, first entry Length, checksum, HeaderLength)  *)
(* kept apart.  SHA-256 and CRC32C are modelled as injective functions of  *)
(* the bytes they cover (no collisions); RSA-OAEP as a ciphertext that     *)
(* only the matching private key opens, and only when handed exactly the   *)
(* ciphertext bytes.                                                       *)
(***************************************************************************)
EXTENDS Integers, Sequences, FiniteSets, TLC

VARIABLES
    conf,      \* NewArchiveOptions handed to WriteEmptyArchive
    wres,      \* what WriteEmptyArchive returned and the layout it computed
    file,      \* the archive bytes: [hdr, ext, len]
    tamper,    \* what was done to the archive between writing and reading
    opts,      \* ExtractOptions: [PrivateKey, Raw]
    pc,        \* position of the run
    rres,      \* result of readArchiveHeader: [err, header, warns]
    walk,      \* ExtractArchive's locals: [endAt, index, err, ...]
    image,     \* input and result of one extractImage call
    sink,      \* a fillSeeker driven call by call: [fs, last, calls]
    span,      \* a byte span handed to splitEntries and parseEntry
    find,      \* findEnd step by step: its tasks, its channel and its loop
    ring       \* the ring of random-fill workers and the token they pass

vars == <<conf, wres, file, tamper, opts, pc, rres, walk, image, sink, span, find, ring>>

\* The state of the units that are driven on their own
units == <<sink, span, find, ring>>

-----------------------------------------------------------------------------
(* Program constants *)

BlockSize == 512

ImgCipherNull == 0

ImgCipherXTSAES == 1

EndingCipherNull == 0

EndingCipherRSA == 1

EndPointerChecksumSHA256 == 0

EndPointerChecksumCRC32 == 1

FillSeek == 0

FillZero == 1

FillRandom == 2

maxHeaderSize == 1048576

maxEndingSize == 32

\* bufio.NewReader's buffer: the default size of the Go bufio package
defaultBufSize == 4096

\* Bytes of the first header entry (CVTM-MAGIC) that readArchiveHeader reads first
firstRead == 56

-----------------------------------------------------------------------------
(* Arithmetic helpers *)

Max(a, b) == IF a >= b THEN a ELSE b

Min(a, b) == IF a <= b THEN a ELSE b

RECURSIVE BitAnd(_, _)
BitAnd(a, b) ==
    IF a = 0 \/ b = 0 THEN 0
    ELSE (a % 2) * (b % 2) + 2 * BitAnd(a \div 2, b \div 2)

RECURSIVE BitXor(_, _)
BitXor(a, b) ==
    IF a = 0 THEN b
    ELSE IF b = 0 THEN a
    ELSE ((a + b) % 2) + 2 * BitXor(a \div 2, b \div 2)

\* n & -a in two's complement, for n >= 0 and a >= 0: -a = ~(a-1), and -0 = 0
AndNeg(n, a) == IF a = 0 THEN 0 ELSE n - BitAnd(n, a - 1)

RECURSIVE SumSeq(_)
SumSeq(s) == IF s = <<>> THEN 0 ELSE Head(s) + SumSeq(Tail(s))

alignUp(n, alignment) == AndNeg(n + (alignment - 1), alignment)

alignDown(n, alignment) == AndNeg(n, alignment)

-----------------------------------------------------------------------------
(* Entries: TypeIDs, schemas and the entry encoder *)

\* A byte-slice field value: n bytes standing for v
Bytes(n, v) == [n |-> n, v |-> v]

\* A key is [size, id]: modulus bytes and which key pair; NoKey is the nil key
NoKey == [size |-> 0, id |-> "none"]

NoBytes == Bytes(0, NoKey)

\* Field widths in bytes of each registered TypeID, in struct order; 0 marks a
\* []byte field
Schema(id) ==
    CASE id = "CVTM-MAGIC" -> <<32, 4>>
      [] id = "ALLOCATE-ONCE" -> <<4>>
      [] id = "END-POINTER-CHEC" -> <<4>>
      [] id = "END-POINTER-LOCA" -> <<4>>
      [] id = "ENDING-CIPHER" -> <<4, 0>>
      [] id = "ENDING-SIZE" -> <<4>>
      [] id = "GLOBAL-LOG-LOCAT" -> <<4, 4>>
      [] id = "IMAGE-AREA" -> <<4, 4>>
      [] id = "IMAGE-BASIC" -> <<4, 1>>
      [] id = "IMAGE-LOG" -> <<4>>
      [] id = "SD-CID" -> <<15>>
      [] id = "NO-MORE-IMAGES" -> <<>>
      [] id = "ENDING" -> <<4, 4, 4, 4, 1, 4>>
      [] id = "IMAGE-KEY" -> <<0>>
      [] id = "IMAGE-LOG-LOCATI" -> <<4, 4>>

\* The bytes of IdCvtmMagic
IdCvtmMagic == <<67, 86, 84, 77, 45, 77, 65, 71, 73, 67, 0, 0, 0, 0, 0, 0>>

\* Encoded width of a field of schema width w holding v: binary.Size of a
\* fixed field, the length of a byte slice
FieldSize(w, v) == IF w = 0 THEN v.n ELSE w

\* Payload bytes of the fields vals under the field widths sch
PayloadSize(sch, vals) == SumSeq([i \in 1..Len(vals) |-> FieldSize(sch[i], vals[i])])

\* writeEntry: TypeID, Size = 20 + payload bytes, then the fields
writeEntry(id, vals) ==
    [id |-> id, vals |-> vals, size |-> PayloadSize(Schema(id), vals)]

EntryLength(e) == 20 + e.size

\* Bytes a list of entries takes
TotalLength(es) == SumSeq([i \in 1..Len(es) |-> EntryLength(es[i])])

\* writeMultipleEntries over an ArchiveHeaderWrite, in its field order
writeMultipleEntries(h) ==
    <<writeEntry("CVTM-MAGIC", <<h.CvtmMagic.Checksum, h.CvtmMagic.HeaderLength>>),
      writeEntry("END-POINTER-CHEC", <<h.EndPointerChec.Algo>>)>>
    \o [i \in 1..Len(h.EndPointerLoca) |->
          writeEntry("END-POINTER-LOCA", <<h.EndPointerLoca[i].Blk>>)]
    \o <<writeEntry("ENDING-CIPHER", <<h.EndingCipher.Algo, h.EndingCipher.Key>>),
         writeEntry("ENDING-SIZE", <<h.EndingSize.Size>>)>>
    \o [i \in 1..Len(h.GlobalLogLocat) |->
          writeEntry("GLOBAL-LOG-LOCAT",
                     <<h.GlobalLogLocat[i].Start, h.GlobalLogLocat[i].Count>>)]
    \o <<writeEntry("IMAGE-AREA", <<h.ImageArea.Start, h.ImageArea.End>>),
         writeEntry("IMAGE-BASIC",
                    <<h.ImageBasic.ImgCipher, h.ImageBasic.ImgClusterSizeExp>>)>>
    \o [i \in 1..Len(h.ImageLog) |->
          writeEntry("IMAGE-LOG", <<h.ImageLog[i].BlkCount>>)]

sizeOfHeader(h) == TotalLength(writeMultipleEntries(h))

-----------------------------------------------------------------------------
(* Checksums and keys *)

\* The 32 bytes a block of zeros carries in its checksum field
Zero32 == <<"zero32">>

\* The checksum field of the header while it is being hashed
ZeroChecksum == <<"zero32">>

\* SHA-256 of a byte string, modelled as an injective function of the bytes
Sha256(data) == <<"sha256", data>>

\* x509.MarshalPKCS1PublicKey: DER of modulus and exponent 65537
MarshalPKCS1PublicKey(key) == Bytes(key.size + 14, key)

\* computeEndPointerChecksum: the block with [0,32) overwritten by the
\* END-POINTER literal, hashed with algo; rest is what the block holds from 32 on
computeEndPointerChecksum(rest, algo) ==
    CASE algo = EndPointerChecksumSHA256 -> <<"sha256", rest>>
      [] algo = EndPointerChecksumCRC32 -> <<"crc32c", rest>>
      [] OTHER -> <<"panic">>

-----------------------------------------------------------------------------
(* File contents *)

\* What a run of bytes holds: k names the kind, chk is what its first 32
\* bytes are when read as an end-pointer checksum field, v is the payload
Zeros == [k |-> "zero", chk |-> Zero32, v |-> 0]

RandomBytes == [k |-> "random", chk |-> <<"random">>, v |-> 0]

HeaderBytes == [k |-> "hdr", chk |-> <<"hdr">>, v |-> 0]

\* Plaintext entries of an ending region
PlainEntries(es) == [k |-> "plain", chk |-> <<"plain">>, v |-> es]

\* rsa.EncryptOAEP output: key.size bytes that key opens to es
CipherText(key, es) == [k |-> "rsa", chk |-> <<"rsa">>, v |-> [key |-> key, plain |-> es]]

\* An end pointer that stores the byte offset of the block pointTo
makeEndPointerBytes(pointTo, checksumType) ==
    [k |-> "ep", chk |-> computeEndPointerChecksum(BlockSize * pointTo, checksumType),
     v |-> BlockSize * pointTo]

\* makeEndPointer: 512 zero bytes, pointTo at [32,36), the checksum at [0,32)
makeEndPointer(pointTo, checksumType) ==
    [k |-> "ep", chk |-> computeEndPointerChecksum(pointTo, checksumType), v |-> pointTo]

-----------------------------------------------------------------------------
(* fillSeeker: a sink is [pos, len, ext, method, err, seeks]; pos is the    *)
(* tracked position, len and ext the underlying file, seeks the number of  *)
(* Seek calls made on the underlying file                                  *)

NewSink(method) ==
    [pos |-> 0, len |-> 0, ext |-> <<>>, method |-> method, err |-> "ok", seeks |-> 0]

\* fillSeeker.Write of n bytes holding c
fsWrite(s, n, c) ==
    IF s.err # "ok" \/ n = 0 THEN s
    ELSE [s EXCEPT !.ext = Append(@, [at |-> s.pos, n |-> n, c |-> c]),
                   !.pos = @ + n,
                   !.len = Max(@, s.pos + n)]

\* Where the underlying file puts its position on Seek(offset, whence)
SeekTarget(s, offset, whence) ==
    IF whence = "start" THEN offset
    ELSE IF whence = "current" THEN s.pos + offset
    ELSE s.len + offset

\* A Seek that forwards every call in Seek mode, also one for the current
\* position
fsSeekForwarded(s, offset, whence) ==
    IF s.err # "ok" THEN s
    ELSE IF s.method = FillSeek
    THEN IF SeekTarget(s, offset, whence) < 0 THEN [s EXCEPT !.err = "seek", !.seeks = @ + 1]
         ELSE [s EXCEPT !.pos = SeekTarget(s, offset, whence), !.seeks = @ + 1]
    ELSE IF whence \notin {"start", "current"} THEN [s EXCEPT !.err = "unsupported whence"]
    ELSE IF SeekTarget(s, offset, whence) < s.pos THEN [s EXCEPT !.err = "fill backwards"]
    ELSE fsWrite(s, SeekTarget(s, offset, whence) - s.pos,
                 IF s.method = FillZero THEN Zeros ELSE RandomBytes)

\* A Seek that moves the tracked position back instead of refusing
fsSeekBackwards(s, offset, whence) ==
    IF s.err # "ok" THEN s
    ELSE IF s.method = FillSeek
    THEN IF SeekTarget(s, offset, whence) < 0 THEN [s EXCEPT !.err = "seek", !.seeks = @ + 1]
         ELSE [s EXCEPT !.pos = SeekTarget(s, offset, whence), !.seeks = @ + 1]
    ELSE IF SeekTarget(s, offset, whence) < s.pos
    THEN [s EXCEPT !.pos = SeekTarget(s, offset, whence)]
    ELSE fsWrite(s, SeekTarget(s, offset, whence) - s.pos,
                 IF s.method = FillZero THEN Zeros ELSE RandomBytes)

\* fillSeeker.Seek; whence is "start", "current" or "end"
fsSeek(s, offset, whence) ==
    IF s.err # "ok" THEN s
    ELSE IF (whence = "start" /\ offset = s.pos) \/ (whence = "current" /\ offset = 0)
    THEN s
    ELSE IF s.method = FillSeek
    THEN LET to == SeekTarget(s, offset, whence)
         IN IF to < 0 THEN [s EXCEPT !.err = "seek", !.seeks = @ + 1]
            ELSE [s EXCEPT !.pos = to, !.seeks = @ + 1]
    ELSE IF whence \notin {"start", "current"} THEN [s EXCEPT !.err = "unsupported whence"]
    ELSE LET n == IF whence = "start" THEN offset - s.pos ELSE offset
         IN IF n < 0 THEN [s EXCEPT !.err = "fill backwards"]
            ELSE fsWrite(s, n, IF s.method = FillZero THEN Zeros ELSE RandomBytes)

\* No fillSeeker is being driven
NoSink == [fs |-> NewSink(FillSeek), last |-> [op |-> "none"]]

\* No span is being decoded
NoSpan == [es |-> <<>>, n |-> 0, past |-> "none"]

\* findEnd is not being stepped
NoFind == [pc |-> "none"]

\* No ring of workers is running
NoRing == [pc |-> "none"]

\* writeZeros(dest, size) on a fillSeeker
writeZeros(s, size) == fsWrite(s, size, Zeros)

\* writeRandom(dest, size) on a fillSeeker
writeRandom(s, size) == fsWrite(s, size, RandomBytes)

alignWriter(s, alignment) ==
    LET cur == s.pos
    IN fsSeek(s, AndNeg(alignment - 1, cur), "current")

RECURSIVE writeRepeatedly(_, _, _, _)
writeRepeatedly(s, data, repeat, alignment) ==
    IF repeat = 0 \/ s.err # "ok" THEN s
    ELSE writeRepeatedly(alignWriter(fsWrite(s, BlockSize, data), alignment),
                         data, repeat - 1, alignment)

\* Bytes a message must leave free in an OAEP block with SHA-256
oaepOverhead == 66

\* writeImageEnding: the encoded entries, RSA-OAEP encrypted if asked, then
\* random padding up to blocks*512 bytes
writeImageEnding(s, ent, cipher, key, blocks) ==
    LET plainLen == TotalLength(ent)
        tooLong == cipher = EndingCipherRSA /\ plainLen > key.size - oaepOverhead
        dataLen == IF cipher = EndingCipherRSA THEN key.size ELSE plainLen
        data == IF cipher = EndingCipherRSA THEN CipherText(key, ent)
                ELSE PlainEntries(ent)
        size == blocks * BlockSize
    IN IF s.err # "ok" THEN s
       ELSE IF tooLong THEN [s EXCEPT !.err = "encrypt"]
       ELSE IF dataLen > size THEN [s EXCEPT !.err = "ending too long"]
       ELSE writeRandom(fsWrite(s, dataLen, data), size - dataLen)

-----------------------------------------------------------------------------
(* WriteEmptyArchive *)

U32(n) == [hi |-> FALSE, lo |-> n]

\* The header bytes as the reader sees them: the first entry's TypeID, Length,
\* Checksum and HeaderLength byte-wise, the other entries as entries; flips
\* are <<offset, bit>> of bits changed at offsets from 56 on
FileHeader(es) ==
    [magic |-> IdCvtmMagic,
     firstEntSize |-> U32(EntryLength(es[1])),
     checksum |-> es[1].vals[1],
     HeaderLength |-> U32(es[1].vals[2]),
     ents |-> Tail(es),
     flips |-> {}]

\* A file nothing was written to
EmptyFile ==
    [hdr |-> [magic |-> <<>>, firstEntSize |-> U32(0), checksum |-> ZeroChecksum,
              HeaderLength |-> U32(0), ents |-> <<>>, flips |-> {}],
     ext |-> <<>>, len |-> 0]

\* The bytes of a header that a checksum covers: the first n bytes of the
\* file with [20,52) zeroed; past is what follows the header when n reaches
\* beyond it
HashedBytes(fh, n, past) ==
    [magic |-> fh.magic, firstEntSize |-> fh.firstEntSize,
     HeaderLength |-> fh.HeaderLength, ents |-> fh.ents, flips |-> fh.flips,
     n |-> n, past |-> past]

\* A layout that does not advance past the global logs
GlobalLogStartFlat(c, base, i) == base

\* Start block of global log i: the logs follow each other from base, each
\* rounded up to the alignment
GlobalLogStart(c, base, i) ==
    base + SumSeq([j \in 1..(i - 1) |-> alignUp(c.GlobalLogs[j], c.AlignmentBlocks)])

\* endingSize as computed at common.go:501-514
EndingSizeOf(c) ==
    IF c.EndingCipher = EndingCipherNull THEN 1
    ELSE alignUp(c.PublicKeyRSA.size, BlockSize)

\* The header as built at common.go:516-537, its locations not yet known
HeaderSkeleton(c) ==
    [CvtmMagic |-> [Checksum |-> ZeroChecksum, HeaderLength |-> 0],
     EndPointerChec |-> [Algo |-> c.EndPointerChecksum],
     EndPointerLoca |-> [i \in 1..(c.EndPointersHead + c.EndPointersTail) |-> [Blk |-> 0]],
     EndingCipher |-> [Algo |-> c.EndingCipher,
                       Key |-> IF c.EndingCipher = EndingCipherRSA
                               THEN MarshalPKCS1PublicKey(c.PublicKeyRSA) ELSE NoBytes],
     EndingSize |-> [Size |-> EndingSizeOf(c)],
     GlobalLogLocat |-> [i \in 1..Len(c.GlobalLogs) |-> [Start |-> 0, Count |-> 0]],
     ImageArea |-> [Start |-> 0, End |-> 0],
     ImageBasic |-> [ImgCipher |-> c.ImgCipher,
                     ImgClusterSizeExp |-> c.ImgClusterSizeExp],
     ImageLog |-> [i \in 1..Len(c.ImgLogs) |-> [BlkCount |-> 0]]]

\* The locations of common.go:539-568 filled into the skeleton, given the
\* encoded size of the header, logStart and the first end-pointer block
FillLayout(c, skeleton, headerSize, logStart, endPointerStart, imgAreaEnd) ==
    [header |->
       [skeleton EXCEPT
          !.CvtmMagic.HeaderLength = headerSize,
          !.ImageLog = [i \in 1..Len(c.ImgLogs) |-> [BlkCount |-> c.ImgLogs[i]]],
          !.GlobalLogLocat = [i \in 1..Len(c.GlobalLogs) |->
                                [Start |-> GlobalLogStart(c, logStart, i),
                                 Count |-> c.GlobalLogs[i]]],
          !.EndPointerLoca =
             [i \in 1..(c.EndPointersHead + c.EndPointersTail) |->
                [Blk |-> IF i <= c.EndPointersHead
                         THEN endPointerStart + (i - 1) * c.AlignmentBlocks
                         ELSE imgAreaEnd + (i - c.EndPointersHead - 1) * c.AlignmentBlocks]],
          !.ImageArea = [Start |-> endPointerStart + c.AlignmentBlocks * c.EndPointersHead,
                         End |-> imgAreaEnd]],
     headerSize |-> headerSize,
     endPointerStart |-> endPointerStart,
     imgAreaStart |-> endPointerStart + c.AlignmentBlocks * c.EndPointersHead,
     imgAreaEnd |-> imgAreaEnd,
     endingSize |-> EndingSizeOf(c),
     sentinelEnd |-> endPointerStart + c.AlignmentBlocks * c.EndPointersHead
                     + EndingSizeOf(c)]

\* The layout given the encoded size of the header
LayoutFor(c, skeleton, headerSize, logStart) ==
    FillLayout(c, skeleton, headerSize, logStart,
               GlobalLogStart(c, logStart, Len(c.GlobalLogs) + 1),
               alignDown(c.DiskSize \div BlockSize, c.AlignmentBlocks)
                 - c.AlignmentBlocks * c.EndPointersTail)

\* The header with every field but the checksum filled in, and the layout
HeaderLayout(c) ==
    LayoutFor(c, HeaderSkeleton(c), sizeOfHeader(HeaderSkeleton(c)),
              alignUp(sizeOfHeader(HeaderSkeleton(c)), c.AlignmentBlocks * BlockSize)
                \div BlockSize)

\* The checksum step, common.go:570-577
HeaderChecksum(h, headerSize) ==
    Sha256(HashedBytes(FileHeader(writeMultipleEntries(h)), headerSize, <<>>))

\* common.go:579-589: the header, then zeros up to the first end pointer
WriteHeaderBytes(l, s) == writeZeros(s, l.endPointerStart * BlockSize - s.pos)

\* The writes of WriteEmptyArchive, common.go:579-621, on sink s
WriteArchiveBytes(c, l, s) ==
    fsSeek(
      writeRepeatedly(
        fsSeek(
          writeImageEnding(
            fsSeek(
              writeRepeatedly(
                WriteHeaderBytes(l, fsWrite(s, l.headerSize, HeaderBytes)),
                makeEndPointer(l.sentinelEnd, c.EndPointerChecksum),
                c.EndPointersHead, c.AlignmentBlocks * BlockSize),
              l.imgAreaStart * BlockSize, "start"),
            <<writeEntry("NO-MORE-IMAGES", <<>>)>>,
            c.EndingCipher, c.PublicKeyRSA, l.endingSize),
          l.imgAreaEnd * BlockSize, "start"),
        makeEndPointer(l.sentinelEnd, c.EndPointerChecksum),
        c.EndPointersTail, c.AlignmentBlocks * BlockSize),
      c.DiskSize, "start")

\* What WriteEmptyArchive leaves: its error, the layout, the header written and
\* the file behind the sink
Written(l, h, s) ==
    [err |-> s.err, layout |-> l, header |-> h, sink |-> s,
     file |-> [hdr |-> FileHeader(writeMultipleEntries(h)), ext |-> s.ext, len |-> s.len]]

\* WriteEmptyArchive once the layout l is computed
WriteLaidOut(c, l) ==
    IF l.sentinelEnd > l.imgAreaEnd
    THEN [err |-> "not enough space", layout |-> l, header |-> l.header,
          sink |-> NewSink(c.FillMethod), file |-> EmptyFile]
    ELSE Written(l,
                 [l.header EXCEPT
                    !.CvtmMagic.Checksum = HeaderChecksum(l.header, l.headerSize)],
                 WriteArchiveBytes(c, l, NewSink(c.FillMethod)))

WriteEmptyArchive(c) == WriteLaidOut(c, HeaderLayout(c))

-----------------------------------------------------------------------------
(* Reading bytes back *)

\* Index of the last written extent holding byte at, 0 if none does
RECURSIVE ExtentAt(_, _, _)
ExtentAt(f, at, i) ==
    IF i = 0 THEN 0
    ELSE IF f.ext[i].at <= at /\ at < f.ext[i].at + f.ext[i].n THEN i
    ELSE ExtentAt(f, at, i - 1)

\* What extent e holds from byte at on: its content if it starts there or is
\* uniform, else the inside of a longer write
ContentFrom(e, at) ==
    IF e.at = at \/ e.c.k \in {"zero", "random"} THEN e.c
    ELSE [k |-> "inside", chk |-> <<"inside">>, v |-> 0]

\* The extents of f with a hole (zeros) in front, so that extent i is at i + 1
Covering(f) == <<[at |-> 0, n |-> 0, c |-> Zeros]>> \o f.ext

\* What the file holds from byte at on: the content written there if a write
\* started exactly there, the inside of a longer write, or a hole (zeros)
ContentAt(f, at) == ContentFrom(Covering(f)[ExtentAt(f, at, Len(f.ext)) + 1], at)

\* Bytes written by the write that starts at byte at (0 if none starts there)
RunLengthFrom(e, at) == IF e.at = at THEN e.n ELSE 0

RunLength(f, at) == RunLengthFrom(Covering(f)[ExtentAt(f, at, Len(f.ext)) + 1], at)

-----------------------------------------------------------------------------
(* Entry decoding: parseEntry, splitEntries, parseEntries *)

Default(id) == [i \in 1..Len(Schema(id)) |-> IF Schema(id)[i] = 0 THEN NoBytes ELSE 0]

\* Offset of field i in the payload of an entry with field widths sch
FieldOffset(sch, vals, i) == PayloadSize(sch, SubSeq(vals, 1, i - 1))

\* A field of width w at offset off of a payload of size bytes, v being what
\* was encoded there: a fixed field that the payload does not hold whole is
\* left at zero, a byte slice takes what is left of the payload
ParseField(size, v, w, off) ==
    IF w = 0
    THEN IF size - off > 0 THEN Bytes(size - off, v.v) ELSE NoBytes
    ELSE IF off + w <= size THEN v ELSE 0

\* parseEntry with the schema of its TypeID looked up
ParseFields(e, sch) ==
    [err |-> IF \E i \in 1..Len(sch) :
                  sch[i] # 0 /\ FieldOffset(sch, e.vals, i) + sch[i] > e.size
             THEN "bad entry" ELSE "ok",
     vals |-> [i \in 1..Len(sch) |->
                 ParseField(e.size, e.vals[i], sch[i], FieldOffset(sch, e.vals, i))]]

\* parseEntry.  The first binary.Read is handed a struct value, not a pointer,
\* and fails with "invalid type" before reading, so every entry takes the
\* field-by-field path: a fixed field that the payload does not hold whole
\* is an error, a byte slice takes what is left of the payload
parseEntry(e) == ParseFields(e, Schema(e.id))

\* Number of leading entries of es that lie whole inside n bytes
RECURSIVE WholeEntries(_, _)
WholeEntries(es, n) ==
    IF es = <<>> \/ n < 20 THEN 0
    ELSE IF EntryLength(Head(es)) > n \/ EntryLength(Head(es)) < 20 THEN 0
    ELSE 1 + WholeEntries(Tail(es), n - EntryLength(Head(es)))

\* splitEntries once the k whole entries are counted; rest is what the span
\* holds after them
SplitAt(es, k, rest, past) ==
    [err |-> IF rest = 0 THEN "ok"
             ELSE IF rest < 20 THEN "bad entry"
             ELSE IF k < Len(es)
             THEN IF EntryLength(es[k + 1]) < 20 THEN "panic" ELSE "bad entry"
             ELSE IF past = "zero" THEN "panic"
             ELSE "bad entry",
     ents |-> SubSeq(es, 1, k)]

\* splitEntries over a span of n bytes that starts with the entries es and
\* goes on with bytes of kind past: "ok" with the entries bucketed, "bad
\* entry" when an entry crosses the end of the span or fewer than 20 bytes
\* are left, "panic" when the loop meets a Length below 20 (in an entry, or
\* the 0 that zero bytes hold) and slices data[20:entSize]
splitEntries(es, n, past) ==
    SplitAt(es, WholeEntries(es, n),
            n - TotalLength(SubSeq(es, 1, WholeEntries(es, n))), past)

Bucket(es, id) == SelectSeq(es, LAMBDA e : e.id = id)

\* The last entry of bucket b parsed, or the zero value of the type
ParseLast(b, id) ==
    IF b = <<>> THEN [err |-> "ok", vals |-> Default(id)] ELSE parseEntry(b[Len(b)])

\* parseEntries for a struct field holding one entry: the last of the bucket
ParseOne(es, id) == ParseLast(Bucket(es, id), id)

\* Results r of parsing every entry of a bucket, collected
Collect(r) ==
    [err |-> IF \E i \in 1..Len(r) : r[i].err # "ok" THEN "bad entry" ELSE "ok",
     vals |-> [i \in 1..Len(r) |-> r[i].vals]]

ParseBucket(b) == Collect([i \in 1..Len(b) |-> parseEntry(b[i])])

\* parseEntries for a slice field: every entry of the bucket, in order
ParseAll(es, id) == ParseBucket(Bucket(es, id))

\* Warnings for the entries u whose TypeID the struct does not know
UnknownWarnings(u) == [i \in 1..Len(u) |-> <<"unknown entry", u[i].id>>]

\* The warnings parseEntries logs for a struct with the given fields
ParseWarnings(es, scalar, known) ==
    [i \in 1..Len(scalar) |-> <<"more than 1 entries", scalar[i]>>]
    \o UnknownWarnings(SelectSeq(es, LAMBDA e : e.id \notin known))

HeaderScalarIds ==
    <<"ALLOCATE-ONCE", "END-POINTER-CHEC", "ENDING-CIPHER", "ENDING-SIZE",
      "IMAGE-AREA", "IMAGE-BASIC", "SD-CID">>

HeaderIds ==
    {"ALLOCATE-ONCE", "END-POINTER-CHEC", "END-POINTER-LOCA", "ENDING-CIPHER",
     "ENDING-SIZE", "GLOBAL-LOG-LOCAT", "IMAGE-AREA", "IMAGE-BASIC", "IMAGE-LOG",
     "SD-CID"}

\* An ArchiveHeaderRead from its parsed fields
HeaderOf(sp, ao, epc, epl, ec, esz, gl, ia, ib, il, cid) ==
    [err |-> IF sp.err # "ok" THEN sp.err
             ELSE IF {ao.err, epc.err, epl.err, ec.err, esz.err, gl.err, ia.err,
                      ib.err, il.err, cid.err} # {"ok"}
             THEN "bad entry" ELSE "ok",
     header |->
       [AllocateOnce |-> [AllocationIncrement |-> ao.vals[1]],
        EndPointerChec |-> [Algo |-> epc.vals[1]],
        EndPointerLoca |-> [i \in 1..Len(epl.vals) |-> [Blk |-> epl.vals[i][1]]],
        EndingCipher |-> [Algo |-> ec.vals[1], Key |-> ec.vals[2]],
        EndingSize |-> [Size |-> esz.vals[1]],
        GlobalLogLocat |-> [i \in 1..Len(gl.vals) |->
                              [Start |-> gl.vals[i][1], Count |-> gl.vals[i][2]]],
        ImageArea |-> [Start |-> ia.vals[1], End |-> ia.vals[2]],
        ImageBasic |-> [ImgCipher |-> ib.vals[1], ImgClusterSizeExp |-> ib.vals[2]],
        ImageLog |-> [i \in 1..Len(il.vals) |-> [BlkCount |-> il.vals[i][1]]],
        SdCid |-> [SdCid |-> cid.vals[1]]],
     warns |-> ParseWarnings(sp.ents,
                             SelectSeq(HeaderScalarIds,
                                       LAMBDA id : Len(Bucket(sp.ents, id)) > 1),
                             HeaderIds)]

\* parseEntries of the split entries sp into an ArchiveHeaderRead
ParseHeaderFields(sp) ==
    HeaderOf(sp,
             ParseOne(sp.ents, "ALLOCATE-ONCE"), ParseOne(sp.ents, "END-POINTER-CHEC"),
             ParseAll(sp.ents, "END-POINTER-LOCA"), ParseOne(sp.ents, "ENDING-CIPHER"),
             ParseOne(sp.ents, "ENDING-SIZE"), ParseAll(sp.ents, "GLOBAL-LOG-LOCAT"),
             ParseOne(sp.ents, "IMAGE-AREA"), ParseOne(sp.ents, "IMAGE-BASIC"),
             ParseAll(sp.ents, "IMAGE-LOG"), ParseOne(sp.ents, "SD-CID"))

\* parseEntries into an ArchiveHeaderRead
parseHeaderEntries(es, n, past) == ParseHeaderFields(splitEntries(es, n, past))

-----------------------------------------------------------------------------
(* readArchiveHeader and checkArchiveHeader *)

\* Comparisons of 32-bit fields kept as [hi, lo]: bit 31 and the low 31 bits
U32Less(a, b) == IF a.hi # b.hi THEN b.hi ELSE a.lo < b.lo

\* x509.ParsePKCS1PublicKey succeeds on the DER of a key, whole
ParsesAsPublicKey(b) == b.v.size > 0 /\ b.n = b.v.size + 14

checkArchiveHeader(o, header, headerSize) ==
    LET keyOk == ParsesAsPublicKey(header.EndingCipher.Key)
        headerBlks == (headerSize + BlockSize - 1) \div BlockSize
        badLoc(e) == ~((e.Blk >= headerBlks /\ e.Blk < header.ImageArea.Start)
                       \/ e.Blk >= header.ImageArea.End)
        errs ==
          (IF header.EndingSize.Size > maxEndingSize
           THEN <<"end pointer too big">> ELSE <<>>)
          \o (IF header.EndingCipher.Algo = EndingCipherNull THEN <<>>
              ELSE IF header.EndingCipher.Algo = EndingCipherRSA
              THEN IF keyOk /\ o.PrivateKey = NoKey
                   THEN <<"private key is not given">> ELSE <<>>
              ELSE <<"unknown EndingCipher.Algo">>)
          \o (IF header.EndPointerChec.Algo > 2
              THEN <<"unknown EndPointerChec.Algo">> ELSE <<>>)
          \o (IF Len(header.EndPointerLoca) = 0
              THEN <<"no end pointers">> ELSE <<>>)
          \o [i \in 1..Len(SelectSeq(header.EndPointerLoca, badLoc)) |->
                "bad end pointer location"]
        warns ==
          (IF header.EndingCipher.Algo = EndingCipherRSA
           THEN IF ~keyOk THEN <<<<"bad public key", "">>>>
                ELSE IF o.PrivateKey # NoKey /\ header.EndingCipher.Key.v # o.PrivateKey
                THEN <<<<"public key mismatch", "">>>> ELSE <<>>
           ELSE <<>>)
          \o (IF headerBlks > header.ImageArea.Start
              THEN <<<<"header and image area overlap", "">>>> ELSE <<>>)
    IN [errs |-> errs, warns |-> warns]

\* Zero value of ArchiveHeaderRead
EmptyHeader ==
    [AllocateOnce |-> [AllocationIncrement |-> 0],
     EndPointerChec |-> [Algo |-> 0],
     EndPointerLoca |-> <<>>,
     EndingCipher |-> [Algo |-> 0, Key |-> NoBytes],
     EndingSize |-> [Size |-> 0],
     GlobalLogLocat |-> <<>>,
     ImageArea |-> [Start |-> 0, End |-> 0],
     ImageBasic |-> [ImgCipher |-> 0, ImgClusterSizeExp |-> 0],
     ImageLog |-> <<>>,
     SdCid |-> [SdCid |-> 0]]

ReadFailed(e) == [err |-> e, errs |-> <<>>, header |-> EmptyHeader, warns |-> <<>>]

\* Bytes the header's entries take in the file, the first entry included
HeaderExtent(fh) == firstRead + TotalLength(fh.ents)

\* The kind of bytes that follow the header's entries, when headerSize
\* reaches beyond them
PastHeader(f, headerSize) ==
    IF headerSize > HeaderExtent(f.hdr) THEN ContentAt(f, HeaderExtent(f.hdr)).k ELSE "none"

\* A reader that skips the checksum comparison
ChecksumSkipped(f, headerSize) == TRUE

\* The checksum comparison of readArchiveHeader, part_001:244-254
ChecksumMatches(f, headerSize) ==
    f.hdr.checksum =
      Sha256(HashedBytes(f.hdr, headerSize,
                         IF headerSize > HeaderExtent(f.hdr)
                         THEN <<PastHeader(f, headerSize)>> ELSE <<>>))

\* Bytes the second infile.Read returns: what is left in the bufio buffer
\* after the first 56, filled by one read of the file
SecondRead(f, want) == Min(want, Min(defaultBufSize, f.len) - firstRead)

\* part_001:264-266: an absent ENDING-SIZE means one block
DefaultEndingSize(header) ==
    IF header.EndingSize.Size = 0 THEN [header EXCEPT !.EndingSize.Size = 1] ELSE header

\* The end of readArchiveHeader: the header checked, errors and warnings joined
CheckedHeader(header, warns, chk) ==
    [err |-> IF chk.errs = <<>> THEN "ok" ELSE "bad header",
     errs |-> chk.errs, header |-> header, warns |-> warns \o chk.warns]

\* readArchiveHeader from part_001:258 on, parsed being what parseEntries gave
ReadParsed(o, headerSize, parsed) ==
    IF parsed.err # "ok" THEN ReadFailed(parsed.err)
    ELSE CheckedHeader(DefaultEndingSize(parsed.header), parsed.warns,
                       checkArchiveHeader(o, DefaultEndingSize(parsed.header), headerSize))

readArchiveHeader(f, o) ==
    LET fh == f.hdr
        headerSize == fh.HeaderLength.lo
    IN IF f.len < firstRead THEN ReadFailed("EOF")
       ELSE IF fh.magic # IdCvtmMagic THEN ReadFailed("bad magic number")
       ELSE IF U32Less(fh.firstEntSize, U32(firstRead)) THEN ReadFailed("bad entry size")
       ELSE IF U32Less(fh.HeaderLength, fh.firstEntSize) THEN ReadFailed("bad header size")
       ELSE IF U32Less(U32(maxHeaderSize), fh.HeaderLength)
       THEN ReadFailed("header size too big")
       ELSE IF SecondRead(f, headerSize - firstRead) # headerSize - firstRead
       THEN ReadFailed("EOF")
       ELSE IF ~ChecksumMatches(f, headerSize) THEN ReadFailed("bad checksum")
       ELSE IF fh.firstEntSize.lo # firstRead THEN ReadFailed("bad entry")
       ELSE ReadParsed(o, headerSize,
                       parseHeaderEntries(fh.ents, headerSize - fh.firstEntSize.lo,
                                          PastHeader(f, headerSize)))

-----------------------------------------------------------------------------
(* findEnd *)

\* What one end-pointer task sends: 0 on a read error or a checksum
\* mismatch, else 512 times the value at [32,36).  This is the task for the
\* algorithms computeEndPointerChecksum has a case for; what it does for
\* another one is in TaskRun
BlockValue(c, algo) ==
    LET rest == IF c.k = "ep" THEN c.v ELSE IF c.k = "zero" THEN 0 ELSE -1
    IN IF c.chk # computeEndPointerChecksum(rest, algo) THEN 0 ELSE BlockSize * rest

EndPointerValue(f, algo, blk) ==
    IF BlockSize * blk + BlockSize > f.len THEN 0
    ELSE BlockValue(ContentAt(f, BlockSize * blk), algo)

\* A selector that takes the last value received instead of the largest
LastOf(s, m) == IF s = <<>> THEN m ELSE s[Len(s)]

RECURSIVE MaxOf(_, _)
MaxOf(s, m) == IF s = <<>> THEN m ELSE MaxOf(Tail(s), IF Head(s) > m THEN Head(s) ELSE m)

findEnd(f, header) ==
    MaxOf([i \in 1..Len(header.EndPointerLoca) |->
             EndPointerValue(f, header.EndPointerChec.Algo, header.EndPointerLoca[i].Blk)],
          0)

-----------------------------------------------------------------------------
(* readEnding *)

EmptyEnding ==
    [Ending |-> [Length |-> 0, Start |-> 0, Prev |-> 0, DataClusterCount |-> 0,
                 ClusterSizeExp |-> 0, ClustersOffset |-> 0],
     ImageKey |-> [Key |-> NoBytes],
     ImageLogLocati |-> <<>>]

EndingScalarIds == <<"NO-MORE-IMAGES", "ENDING", "IMAGE-KEY">>

EndingIds == {"NO-MORE-IMAGES", "ENDING", "IMAGE-KEY", "IMAGE-LOG-LOCATI"}

\* An EndingRead from its parsed fields
EndingOf(sp, en, ik, ll) ==
    [err |-> IF sp.err # "ok" THEN sp.err
             ELSE IF {en.err, ik.err, ll.err} # {"ok"} THEN "bad entry" ELSE "ok",
     ending |->
       [Ending |-> [Length |-> en.vals[1], Start |-> en.vals[2], Prev |-> en.vals[3],
                    DataClusterCount |-> en.vals[4], ClusterSizeExp |-> en.vals[5],
                    ClustersOffset |-> en.vals[6]],
        ImageKey |-> [Key |-> ik.vals[1]],
        ImageLogLocati |-> [i \in 1..Len(ll.vals) |->
                              [Offset |-> ll.vals[i][1], Size |-> ll.vals[i][2]]]]]

\* parseEntries of the split entries sp into an EndingRead
ParseEndingFields(sp) ==
    EndingOf(sp, ParseOne(sp.ents, "ENDING"), ParseOne(sp.ents, "IMAGE-KEY"),
             ParseAll(sp.ents, "IMAGE-LOG-LOCATI"))

\* parseEntries into an EndingRead
parseEndingEntries(es, n, past) == ParseEndingFields(splitEntries(es, n, past))

EndingFailed(e) == [err |-> e, ending |-> EmptyEnding]

\* rsa.DecryptOAEP of size bytes holding c, run bytes of them written at
\* once: they must be exactly one ciphertext made for the private key's
\* public half
Decrypts(c, run, size, priv) == c.k = "rsa" /\ run = size /\ c.v.key = priv

\* readEnding from part_001:395 on: es are the entries of the decrypted (or
\* plain) data, have the bytes of it, size the bytes of the ending region
ReadEntries(es, have, size) ==
    IF es[1].id = "NO-MORE-IMAGES" THEN EndingFailed("no more images")
    ELSE IF es[1].id # "ENDING"
    THEN EndingFailed("bad magic number for ending")
    ELSE IF es[1].vals[1] > size THEN EndingFailed("bad ending size")
    ELSE parseEndingEntries(es, Min(es[1].vals[1], have), "random")

\* readEnding once the size bytes before end are read: c is what they hold,
\* run how many of them one write put there
ReadEndingBytes(c, run, size, o, header) ==
    IF header.EndingCipher.Algo = EndingCipherRSA
    THEN IF o.PrivateKey = NoKey THEN EndingFailed("panic")
         ELSE IF ~Decrypts(c, run, size, o.PrivateKey) THEN EndingFailed("decryption error")
         ELSE ReadEntries(c.v.plain, TotalLength(c.v.plain), size)
    ELSE IF header.EndingCipher.Algo # EndingCipherNull THEN EndingFailed("panic")
    ELSE IF c.k # "plain" THEN EndingFailed("bad magic number for ending")
    ELSE ReadEntries(c.v, size, size)

readEnding(end, f, o, header) ==
    IF end < BlockSize * header.EndingSize.Size THEN EndingFailed("bad end pointer")
    ELSE IF end > f.len THEN EndingFailed("EOF")
    ELSE ReadEndingBytes(ContentAt(f, end - BlockSize * header.EndingSize.Size),
                         RunLength(f, end - BlockSize * header.EndingSize.Size),
                         BlockSize * header.EndingSize.Size, o, header)

-----------------------------------------------------------------------------
(* extractImage *)

\* Stored cluster-index data: int32 values, 4 bytes each
IndexData(vals) == [k |-> "index", chk |-> <<"index">>, v |-> vals]

\* The int32 at byte at of the file: a stored index value, 0 in zeros and
\* holes, and an unrecognized negative value in any other bytes
IndexIn(e, at) ==
    IF e.c.k = "zero" THEN 0
    ELSE IF e.c.k # "index" THEN -2
    ELSE IF (at - e.at) \div 4 + 1 <= Len(e.c.v) THEN e.c.v[(at - e.at) \div 4 + 1]
    ELSE 0

IndexAt(f, at) == IndexIn(Covering(f)[ExtentAt(f, at, Len(f.ext)) + 1], at)

Pow2(n) == 2 ^ n

CeilDiv(a, b) == (a + b - 1) \div b

\* readIndex: a non-negative index above allocatedClusters becomes -1
readIndex(raw, allocatedClusters) ==
    IF raw >= 0 /\ raw > allocatedClusters THEN -1 ELSE raw

RECURSIVE Insert(_, _)
Insert(s, x) ==
    IF s = <<>> THEN <<x>>
    ELSE IF x <= Head(s) THEN <<x>> \o s
    ELSE <<Head(s)>> \o Insert(Tail(s), x)

RECURSIVE SortInts(_)
SortInts(s) == IF s = <<>> THEN <<>> ELSE Insert(SortInts(Tail(s)), Head(s))

\* sort.SearchInts: the number of elements below x in a sorted list
countL2TablesBefore(l2AtSrc, x) == Cardinality({i \in 1..Len(l2AtSrc) : l2AtSrc[i] < x})

\* Bytes one bufio.Reader takes from the file to deliver want bytes: whole
\* buffers of defaultBufSize, as far as the file goes
ReadAhead(f, pos, want) ==
    Min(f.len - pos, CeilDiv(want, defaultBufSize) * defaultBufSize)

\* The loop over l2AtSrc, part_001:601-626.  st is [src, dst, last, err,
\* tables, first]: input position, output position, lastL2, for each table
\* written where it was read (src), where it went (dst) and where the copy in
\* front of it began reading (from), and the input position at the start
RECURSIVE CopyTables(_, _, _, _)
CopyTables(f, l2s, cs, st) ==
    IF l2s = <<>> \/ st.err # "ok" THEN st
    ELSE LET l2 == Head(l2s)
             n == (l2 - st.last) * cs
             src1 == st.src + n
         IN IF src1 > f.len THEN [st EXCEPT !.err = "EOF"]
            ELSE IF src1 + cs > f.len
            THEN [st EXCEPT !.err = "EOF", !.src = src1, !.dst = st.dst + n, !.last = l2]
            ELSE CopyTables(f, Tail(l2s), cs,
                   [src |-> src1 + ReadAhead(f, src1, cs),
                    dst |-> st.dst + n + 2 * cs,
                    last |-> l2,
                    err |-> "ok",
                    tables |-> Append(st.tables,
                                      [src |-> src1, dst |-> st.dst + n, from |-> st.src]),
                    first |-> st.first])

ImageFailed(e) ==
    [err |-> e, raw |-> FALSE, ClusterBits |-> 0, Size |-> 0, L1Size |-> 0,
     L1TableOffset |-> 0, RefcountTableOffset |-> 0, l1Data |-> <<>>, l1 |-> <<>>,
     base |-> 0, tables |-> <<>>, written |-> 0, clusters |-> 0, rest |-> 0]

\* An L1 entry: the allocated flag (bit 63) and the offset below it
L1Entry(top, off) == [top |-> top, off |-> off]

\* extractImage from part_001:601 on: the L1 table l1Data is read, copied is
\* what the loop over the L2 tables did
FinishImage(f, allocatedBytes, clusterExp, dataClusterCount, l1Data, l1, base, copied) ==
    LET cs == Pow2(clusterExp)
        tail == allocatedBytes - copied.last * cs
        dataEnd == IF tail > 0 THEN copied.dst + tail ELSE copied.dst
    IN IF copied.err # "ok" THEN ImageFailed(copied.err)
       ELSE IF tail > 0 /\ copied.src + tail > f.len THEN ImageFailed("EOF")
       ELSE [err |-> "ok", raw |-> FALSE,
             ClusterBits |-> clusterExp,
             Size |-> dataClusterCount * cs,
             L1Size |-> Len(l1),
             L1TableOffset |-> cs,
             RefcountTableOffset |-> Pow2(clusterExp),
             l1Data |-> l1Data, l1 |-> l1, base |-> base,
             tables |-> copied.tables,
             written |-> IF dataEnd > base THEN dataEnd
                         ELSE IF Len(l1) > 0 THEN cs + 8 * Len(l1)
                         ELSE 104,
             clusters |-> copied.first,
             rest |-> copied.src]

\* The L1 table of the output, part_001:560-590: two entries for each index
\* read, l2AtSrc being the sorted indices that are present
L1Table(l1Data, l2AtSrc, base, cs) ==
    [i \in 1..(2 * Len(l1Data)) |->
       IF l1Data[(i + 1) \div 2] < 0 THEN L1Entry(FALSE, 0)
       ELSE L1Entry(TRUE, base + (countL2TablesBefore(l2AtSrc, l1Data[(i + 1) \div 2])
                                  + l1Data[(i + 1) \div 2]) * cs
                          + (IF i % 2 = 0 THEN cs ELSE 0))]

\* extractImage once the indices l1Data are read and sorted into l2AtSrc
ConvertImage(f, end, ending, clusterExp, l1Data, l2AtSrc, base) ==
    FinishImage(f, end - BlockSize * ending.Ending.Start, clusterExp,
                ending.Ending.DataClusterCount,
                l1Data, L1Table(l1Data, l2AtSrc, base, Pow2(clusterExp)), base,
                CopyTables(f, l2AtSrc, Pow2(clusterExp),
                           [src |-> BlockSize * ending.Ending.Start
                                    + 512 * ending.Ending.ClustersOffset,
                            dst |-> base, last |-> 0, err |-> "ok", tables |-> <<>>,
                            first |-> BlockSize * ending.Ending.Start
                                      + 512 * ending.Ending.ClustersOffset]))

\* The indices read at part_001:540-558
ReadL1(f, start, l1Len, allocatedClusters) ==
    [i \in 1..l1Len |-> readIndex(IndexAt(f, start + 4 * (i - 1)), allocatedClusters)]

\* extractImage with the indices l1Data read
ConvertWith(f, end, ending, clusterExp, l1Data, base) ==
    ConvertImage(f, end, ending, clusterExp, l1Data,
                 SortInts(SelectSeq(l1Data, LAMBDA v : v >= 0)), base)

extractImage(f, o, end, ending) ==
    LET start == BlockSize * ending.Ending.Start
        clusterExp == (9 + ending.Ending.ClusterSizeExp) % 256
        cs == Pow2(clusterExp)
        allocatedClusters == (end - start + 512 * ending.Ending.ClustersOffset) \div cs
        l1Len == CeilDiv(ending.Ending.DataClusterCount, Pow2(clusterExp - 2))
        l1ClusterCount == CeilDiv(l1Len, Pow2(clusterExp - 4))
    IN IF start > end THEN ImageFailed("image start is after end")
       ELSE IF o.Raw
       THEN IF end > f.len THEN ImageFailed("EOF")
            ELSE [ImageFailed("ok") EXCEPT !.raw = TRUE, !.written = end - start]
       ELSE IF start + 4 * l1Len > f.len THEN ImageFailed("EOF")
       ELSE ConvertWith(f, end, ending, clusterExp,
                        ReadL1(f, start, l1Len, allocatedClusters),
                        cs + l1ClusterCount * cs)

-----------------------------------------------------------------------------
(* Bounds of the model *)

\* Head and tail end-pointer counts run from 0 to these
MaxHead == 3

MaxTail == 3

\* AlignmentBlocks is 2^e for e up to this
MaxAlignExp == 2

\* End-pointer blocks zeroed between writing and reading
MaxZeroed == 2

DiskSizes == {2048, 20580, 300000}

\* Global log sizes with image log sizes, in blocks
LogChoices == {[gl |-> <<>>, il |-> <<>>], [gl |-> <<3, 1>>, il |-> <<2, 1>>]}

KeyA == [size |-> 256, id |-> "A"]

KeyB == [size |-> 512, id |-> "B"]

\* Ending cipher with its public key
CipherChoices ==
    {[algo |-> EndingCipherNull, key |-> NoKey],
     [algo |-> EndingCipherRSA, key |-> KeyA],
     [algo |-> EndingCipherRSA, key |-> KeyB]}

MakeConf(disk, ae, gl, il, nh, nt, ci, chk, fill) ==
    [DiskSize |-> disk, GlobalLogs |-> gl, ImgLogs |-> il,
     EndPointersHead |-> nh, EndPointersTail |-> nt,
     EndingCipher |-> ci.algo, EndPointerChecksum |-> chk,
     PublicKeyRSA |-> ci.key, ImgCipher |-> ImgCipherXTSAES, ImgClusterSizeExp |-> 3,
     AlignmentBlocks |-> Pow2(ae), FillMethod |-> fill]

ConfSet ==
    {MakeConf(disk, ae, lg.gl, lg.il, nh, nt, ci, chk, fill) :
       disk \in DiskSizes, ae \in 0..MaxAlignExp, lg \in LogChoices, nh \in 0..MaxHead, nt \in 0..MaxTail,
       ci \in CipherChoices,
       chk \in {EndPointerChecksumSHA256, EndPointerChecksumCRC32},
       fill \in {FillSeek, FillZero, FillRandom}}

-----------------------------------------------------------------------------
(* The run: write an archive, damage it, extract it *)

NotWritten == [err |-> "none"]

NoTamper ==
    [zeroed |-> {}, flip |-> <<>>, inserted |-> <<>>, images |-> 0, tip |-> 0, key |-> "none"]

WalkIdle == [endAt |-> 0, index |-> 0, err |-> "none", reads |-> 0]

InitWith(confs, raws) ==
    /\ conf \in confs
    /\ wres = NotWritten
    /\ file = EmptyFile
    /\ tamper = NoTamper
    /\ opts \in {[PrivateKey |-> conf.PublicKeyRSA, Raw |-> r] : r \in raws}
    /\ pc = "start"
    /\ rres = ReadFailed("none")
    /\ walk = WalkIdle
    /\ image = ImageFailed("none")
    /\ sink = NoSink
    /\ span = NoSpan
    /\ find = NoFind
    /\ ring = NoRing

Init == InitWith(ConfSet, {FALSE})

\* WriteEmptyArchive(conf)
Write ==
    /\ pc = "start"
    /\ wres' = WriteEmptyArchive(conf)
    /\ file' = wres'.file
    /\ pc' = IF wres'.err = "ok" THEN "written" ELSE "failed"
    /\ UNCHANGED <<conf, tamper, opts, rres, walk, image, units>>

\* The environment overwrites one end-pointer block with zeros
ZeroEndPointer ==
    /\ pc = "written"
    /\ Cardinality(tamper.zeroed) < MaxZeroed
    /\ tamper.flip = <<>> /\ tamper.inserted = <<>> /\ tamper.images = 0
    /\ \E i \in 1..Len(wres.header.EndPointerLoca) :
         LET blk == wres.header.EndPointerLoca[i].Blk
         IN /\ \A b \in tamper.zeroed : b < blk
            /\ tamper' = [tamper EXCEPT !.zeroed = @ \cup {blk}]
            /\ file' = [file EXCEPT !.ext = Append(@, [at |-> BlockSize * blk,
                                                        n |-> BlockSize, c |-> Zeros])]
    /\ UNCHANGED <<conf, wres, opts, pc, rres, walk, image, units>>

\* ExtractArchive, part_001:635-638: readArchiveHeader
ReadHeader ==
    /\ pc = "written"
    /\ rres' = readArchiveHeader(file, opts)
    /\ pc' = IF rres'.err = "ok" THEN "header" ELSE "done"
    /\ walk' = IF rres'.err = "ok" THEN walk ELSE [walk EXCEPT !.err = rres'.err]
    /\ UNCHANGED <<conf, wres, file, tamper, opts, image, units>>

\* The walk once findEnd returned endAt
StartWalk(w, endAt) ==
    [w EXCEPT !.endAt = endAt,
              !.err = IF endAt = 0 THEN "no valid end pointer" ELSE "running"]

\* ExtractArchive, part_001:640-643: findEnd
FindEnd ==
    /\ pc = "header"
    /\ walk' = StartWalk(walk, findEnd(file, rres.header))
    /\ pc' = IF walk'.err = "running" THEN "walk" ELSE "done"
    /\ UNCHANGED <<conf, wres, file, tamper, opts, rres, image, units>>

\* A walk that follows Prev without asking that it points backwards
AfterImageUnchecked(w, prev, img) ==
    [next |-> IF img.err # "ok" THEN [w EXCEPT !.err = "error extracting image"]
              ELSE [w EXCEPT !.endAt = BlockSize * prev, !.index = @ + 1],
     img |-> img]

\* The loop of ExtractArchive from part_001:660 on: the ending pointed back
\* to block prev and img is what extractImage made of the image
AfterImage(w, prev, img) ==
    [next |-> IF img.err # "ok" THEN [w EXCEPT !.err = "error extracting image"]
              ELSE IF BlockSize * prev >= w.endAt
              THEN [w EXCEPT !.err = "ending does not point backwards"]
              ELSE [w EXCEPT !.endAt = BlockSize * prev, !.index = @ + 1],
     img |-> img]

\* The loop of ExtractArchive from part_001:653 on: r is what readEnding
\* gave, keep the image result standing when no image is extracted
AfterEnding(w, f, o, header, r, keep) ==
    IF r.err = "no more images" THEN [next |-> [w EXCEPT !.err = "ok"], img |-> keep]
    ELSE IF r.err # "ok" THEN [next |-> [w EXCEPT !.err = r.err], img |-> keep]
    ELSE AfterImage(w, r.ending.Ending.Prev,
                    extractImage(f, o, w.endAt - BlockSize * header.EndingSize.Size,
                                 r.ending))

\* One iteration of the loop of ExtractArchive, part_001:645-671; reads counts
\* the calls of readEnding
WalkIteration(w, f, o, header, keep) ==
    IF w.endAt <= header.ImageArea.Start
    THEN [next |-> [w EXCEPT !.err = "ending outside image area"], img |-> keep]
    ELSE IF w.endAt = header.ImageArea.Start
    THEN [next |-> [w EXCEPT !.err = "ok"], img |-> keep]
    ELSE AfterEnding([w EXCEPT !.reads = @ + 1], f, o, header,
                     readEnding(w.endAt, f, o, header), keep)

WalkStep ==
    /\ pc = "walk"
    /\ \E it \in {WalkIteration(walk, file, opts, rres.header, image)} :
         /\ walk' = it.next
         /\ image' = it.img
    /\ pc' = IF walk'.err = "running" THEN "walk" ELSE "done"
    /\ UNCHANGED <<conf, wres, file, tamper, opts, rres, units>>

Next == Write \/ ZeroEndPointer \/ ReadHeader \/ FindEnd \/ WalkStep

Spec == Init /\ [][Next]_vars

-----------------------------------------------------------------------------
(* Damaged and extended headers *)

\* Bit b of a 32-bit little-endian field changed
FlipU32(u, b) ==
    IF b = 31 THEN [u EXCEPT !.hi = ~@] ELSE [u EXCEPT !.lo = BitXor(@, Pow2(b))]

\* The header with bit `bit` of the byte at offset off changed
FlipBit(fh, off, bit) ==
    IF off < 16 THEN [fh EXCEPT !.magic[off + 1] = BitXor(@, Pow2(bit))]
    ELSE IF off < 20 THEN [fh EXCEPT !.firstEntSize = FlipU32(@, 8 * (off - 16) + bit)]
    ELSE IF off < 52 THEN fh
    ELSE IF off < 56 THEN [fh EXCEPT !.HeaderLength = FlipU32(@, 8 * (off - 52) + bit)]
    ELSE [fh EXCEPT !.flips = @ \cup {<<off, bit>>}]

\* Header offsets whose bits are changed: the magic, the first entry's
\* Length, HeaderLength, and entries after the first
FlipOffsets == {0, 15, 16, 17, 19, 52, 53, 54, 55, 56, 100}

FlipBits == {0, 3, 4, 5, 7}

\* The environment changes one bit of the written header outside [20, 52)
FlipHeaderBit ==
    /\ pc = "written"
    /\ tamper = NoTamper
    /\ \E off \in FlipOffsets, bit \in FlipBits :
         /\ off < wres.layout.headerSize
         /\ tamper' = [tamper EXCEPT !.flip = <<off, bit>>]
         /\ file' = [file EXCEPT !.hdr = FlipBit(@, off, bit)]
    /\ UNCHANGED <<conf, wres, opts, pc, rres, walk, image, units>>

\* An entry whose TypeID no struct registers, taking length bytes
UnknownEntry(length) == [id |-> "FUTURE-ENTRY", vals |-> <<>>, size |-> length - 20]

\* Lengths of the entry inserted
UnknownLengths == {20, 24, 4000}

\* The header fh with entry e inserted after pos of the entries that follow
\* CVTM-MAGIC, HeaderLength adjusted and the checksum recomputed
WithEntry(fh, pos, e) ==
    LET grown == [fh EXCEPT
                    !.ents = SubSeq(@, 1, pos) \o <<e>> \o SubSeq(@, pos + 1, Len(@)),
                    !.HeaderLength = U32(@.lo + EntryLength(e))]
    IN [grown EXCEPT !.checksum = Sha256(HashedBytes(grown, grown.HeaderLength.lo, <<>>))]

\* First block after the header that the layout gives to something else
HeaderLimit(w) ==
    IF Len(w.header.GlobalLogLocat) > 0 THEN w.header.GlobalLogLocat[1].Start
    ELSE w.layout.endPointerStart

\* The environment inserts an unknown entry among the entries of the written
\* header, in the room the layout leaves after the header
InsertUnknownEntry ==
    /\ pc = "written"
    /\ tamper = NoTamper
    /\ \E pos \in 0..Len(file.hdr.ents), length \in UnknownLengths :
         /\ wres.layout.headerSize + length <= BlockSize * HeaderLimit(wres)
         /\ tamper' = [tamper EXCEPT !.inserted = <<pos, length>>]
         /\ file' = [file EXCEPT
                       !.hdr = WithEntry(@, pos, UnknownEntry(length)),
                       !.ext = Append(@, [at |-> 0, n |-> wres.layout.headerSize + length,
                                          c |-> HeaderBytes])]
    /\ UNCHANGED <<conf, wres, opts, pc, rres, walk, image, units>>

\* AlignmentBlocks is 2^e for e in this set: one block, and units that leave
\* room for a long entry after the header
HeaderAlignExps == {0, 4}

HeaderConfSet ==
    {MakeConf(300000, ae, lg.gl, lg.il, nh, 1, ci, chk, fill) :
       ae \in HeaderAlignExps, lg \in LogChoices, nh \in 0..1,
       ci \in {c \in CipherChoices : c.key.size <= 256},
       chk \in {EndPointerChecksumSHA256},
       fill \in {FillSeek, FillZero}}

InitHeader == InitWith(HeaderConfSet, {FALSE})

NextHeader == Write \/ FlipHeaderBit \/ InsertUnknownEntry \/ ReadHeader

SpecHeader == InitHeader /\ [][NextHeader]_vars

-----------------------------------------------------------------------------
(* Headers that declare the RSA ending cipher.  The environment rewrites    *)
(* the ENDING-CIPHER entry of a written header, as a writer with another    *)
(* key or a damaged medium would leave it, and the checksum with it.        *)

\* Public-key bytes a header can hold: the DER of a key, the DER of another
\* key, nothing, the DER of a key cut short, and bytes that are no DER
KeyBytes(kind) ==
    CASE kind = "valid" -> MarshalPKCS1PublicKey(KeyA)
      [] kind = "other" -> MarshalPKCS1PublicKey(KeyB)
      [] kind = "empty" -> NoBytes
      [] kind = "cut" -> Bytes(100, KeyA)
      [] kind = "garbage" -> Bytes(270, NoKey)

KeyKinds == {"valid", "other", "empty", "cut", "garbage"}

\* Entry i of es replaced by e
ReplaceAt(es, i, e) == [j \in 1..Len(es) |-> IF j = i THEN e ELSE es[j]]

\* The header fh with its entry i replaced by e, HeaderLength adjusted and the
\* checksum recomputed
WithReplaced(fh, i, e) ==
    LET changed == [fh EXCEPT
                      !.ents = ReplaceAt(@, i, e),
                      !.HeaderLength = U32(@.lo + EntryLength(e) - EntryLength(fh.ents[i]))]
    IN [changed EXCEPT
          !.checksum = Sha256(HashedBytes(changed, changed.HeaderLength.lo, <<>>))]

\* The environment makes the written header declare RSA with key bytes of
\* one of the kinds, in the room the layout leaves after the header
DeclareRSA ==
    /\ pc = "written"
    /\ tamper = NoTamper
    /\ \E kind \in KeyKinds, i \in 1..Len(file.hdr.ents) :
         /\ file.hdr.ents[i].id = "ENDING-CIPHER"
         /\ wres.layout.headerSize + KeyBytes(kind).n <= BlockSize * HeaderLimit(wres)
         /\ tamper' = [tamper EXCEPT !.key = kind]
         /\ file' = [file EXCEPT
                       !.hdr = WithReplaced(@, i, writeEntry("ENDING-CIPHER",
                                                           <<EndingCipherRSA, KeyBytes(kind)>>)),
                       !.ext = Append(@, [at |-> 0,
                                          n |-> wres.layout.headerSize + KeyBytes(kind).n,
                                          c |-> HeaderBytes])]
    /\ UNCHANGED <<conf, wres, opts, pc, rres, walk, image, units>>

CipherConfSet ==
    {MakeConf(300000, 4, lg.gl, lg.il, nh, nt, [algo |-> EndingCipherNull, key |-> NoKey],
              chk, fill) :
       lg \in LogChoices, nh \in 0..1, nt \in 1..2,
       chk \in {EndPointerChecksumSHA256, EndPointerChecksumCRC32},
       fill \in {FillSeek, FillZero}}

\* The caller gives no private key, or one of two
InitCipher ==
    /\ conf \in CipherConfSet
    /\ wres = NotWritten
    /\ file = EmptyFile
    /\ tamper = NoTamper
    /\ opts \in {[PrivateKey |-> k, Raw |-> FALSE] : k \in {NoKey, KeyA, KeyB}}
    /\ pc = "start"
    /\ rres = ReadFailed("none")
    /\ walk = WalkIdle
    /\ image = ImageFailed("none")
    /\ sink = NoSink
    /\ span = NoSpan
    /\ find = NoFind
    /\ ring = NoRing

NextCipher == Write \/ DeclareRSA \/ ReadHeader \/ FindEnd \/ WalkStep

SpecCipher == InitCipher /\ [][NextCipher]_vars

-----------------------------------------------------------------------------
(* Archives with images.  The repository has no code that appends an image; *)
(* the environment writes what the reader expects of one: the image's data, *)
(* an ending region holding an ENDING entry, and every end pointer set to   *)
(* the end of that region.                                                  *)

\* Images appended to one archive
MaxImages == 2

\* Where the Prev field of an appended ending points, in blocks: nowhere, the
\* block before the image area, the start of the image area, the ending
\* before it, itself, or further on
PrevKinds == {"zero", "before", "start", "chain", "self", "forward"}

PrevOf(kind, areaStart, tipOld, endNew) ==
    CASE kind = "zero" -> 0
      [] kind = "before" -> areaStart - 1
      [] kind = "start" -> areaStart
      [] kind = "chain" -> tipOld \div BlockSize
      [] kind = "self" -> endNew \div BlockSize
      [] kind = "forward" -> endNew \div BlockSize + 1

\* The data of an image: its blocks, the ENDING values describing them and the
\* int32 values stored at its start
PlainShapes ==
    {[blocks |-> 1, exp |-> 0, count |-> 0, offset |-> 0, index |-> <<>>]}

ImageShapes ==
    {[blocks |-> b, exp |-> e, count |-> n, offset |-> 1, index |-> ix] :
       b \in {2, 12}, e \in {0, 1, 255}, n \in {0, 1, 129},
       ix \in {<<>>, <<0>>, <<-1, 2>>, <<2, 0>>, <<1, -7>>}}
    \cup {[blocks |-> 20, exp |-> 3, count |-> n, offset |-> 1, index |-> ix] :
            n \in {1, 1025}, ix \in {<<1>>, <<0, 1>>}}

\* The bytes of one image with its ending, written at byte tipOld of file f,
\* and every end pointer of header h set to the new end
WithImage(f, h, tipOld, sh, prevKind) ==
    LET endNew == tipOld + BlockSize * (sh.blocks + h.EndingSize.Size)
        ending == writeEntry("ENDING",
                    <<41, tipOld \div BlockSize,
                      PrevOf(prevKind, h.ImageArea.Start, tipOld, endNew),
                      sh.count, sh.exp, sh.offset>>)
    IN [f EXCEPT !.ext =
          @ \o (IF sh.index = <<>> THEN <<>>
                ELSE <<[at |-> tipOld, n |-> 4 * Len(sh.index), c |-> IndexData(sh.index)]>>)
            \o <<[at |-> endNew - BlockSize * h.EndingSize.Size,
                  n |-> BlockSize * h.EndingSize.Size,
                  c |-> PlainEntries(<<ending>>)]>>
            \o [i \in 1..Len(h.EndPointerLoca) |->
                  [at |-> BlockSize * h.EndPointerLoca[i].Blk, n |-> BlockSize,
                   c |-> makeEndPointer(endNew \div BlockSize, h.EndPointerChec.Algo)]]]

\* The environment appends an image after the last one
AppendImage(shapes, prevKinds, most) ==
    /\ pc = "written"
    /\ tamper.images < most
    /\ tamper.zeroed = {} /\ tamper.flip = <<>> /\ tamper.inserted = <<>>
    /\ conf.EndingCipher = EndingCipherNull
    /\ \E sh \in shapes, kind \in prevKinds :
         LET tipOld == IF tamper.images = 0
                       THEN BlockSize * (wres.header.ImageArea.Start
                                         + wres.header.EndingSize.Size)
                       ELSE tamper.tip
             endNew == tipOld + BlockSize * (sh.blocks + wres.header.EndingSize.Size)
         IN /\ endNew <= BlockSize * wres.header.ImageArea.End
            /\ tamper' = [tamper EXCEPT !.images = @ + 1, !.tip = endNew]
            /\ file' = WithImage(file, wres.header, tipOld, sh, kind)
    /\ UNCHANGED <<conf, wres, opts, pc, rres, walk, image, units>>

WalkConfSet ==
    {MakeConf(20580, ae, <<>>, <<>>, nh, 1, [algo |-> EndingCipherNull, key |-> NoKey],
              chk, fill) :
       ae \in 0..1, nh \in 0..1,
       chk \in {EndPointerChecksumSHA256, EndPointerChecksumCRC32},
       fill \in {FillZero}}

InitWalk == InitWith(WalkConfSet, {FALSE, TRUE})

AppendPlainImage == AppendImage(PlainShapes, PrevKinds, MaxImages)

NextWalk == Write \/ AppendPlainImage \/ ReadHeader \/ FindEnd \/ WalkStep

SpecWalk == InitWalk /\ [][NextWalk]_vars

ImageConfSet ==
    {MakeConf(20580, 0, <<>>, <<>>, nh, 1, [algo |-> EndingCipherNull, key |-> NoKey],
              EndPointerChecksumSHA256, fill) :
       nh \in 0..1, fill \in {FillZero, FillRandom}}

InitImage == InitWith(ImageConfSet, {FALSE})

AppendOneImage == AppendImage(ImageShapes, {"chain"}, 1)

NextImage == Write \/ AppendOneImage \/ ReadHeader \/ FindEnd \/ WalkStep

SpecImage == InitImage /\ [][NextImage]_vars

-----------------------------------------------------------------------------
(* A fillSeeker driven call by call *)

\* Write and Seek calls made on one fillSeeker
MaxSinkOps == 3

\* Byte counts of the Write calls
SinkWrites == {1, 512}

\* Offsets of the Seek calls
SinkOffsets == {-600, 0, 1, 512}

SinkWhences == {"start", "current", "end"}

\* The fillSeeker after a call that left it as r: an error is returned to the
\* caller, the fillSeeker stays usable
AfterCall(r) == [r EXCEPT !.err = "ok"]

\* dest.Write(p) with len(p) = n
SinkWrite ==
    /\ pc = "sink"
    /\ sink.calls < MaxSinkOps
    /\ \E n \in SinkWrites :
         sink' = [fs |-> fsWrite(sink.fs, n, RandomBytes),
                  last |-> [op |-> "write", n |-> n, err |-> "ok"],
                  calls |-> sink.calls + 1]
    /\ UNCHANGED <<conf, wres, file, tamper, opts, pc, rres, walk, image, span, find, ring>>

\* dest.Seek(offset, whence)
SinkSeek ==
    /\ pc = "sink"
    /\ sink.calls < MaxSinkOps
    /\ \E offset \in SinkOffsets, whence \in SinkWhences :
         \E r \in {fsSeek(sink.fs, offset, whence)} :
           sink' = [fs |-> AfterCall(r),
                    last |-> [op |-> "seek", offset |-> offset, whence |-> whence,
                              err |-> r.err, ret |-> IF r.err = "ok" THEN r.pos ELSE 0],
                    calls |-> sink.calls + 1]
    /\ UNCHANGED <<conf, wres, file, tamper, opts, pc, rres, walk, image, span, find, ring>>

\* WriteEmptyArchive(conf) on a fillSeeker nothing was written to
SinkArchive ==
    /\ pc = "sink"
    /\ sink.calls = 0
    /\ \E w \in {WriteEmptyArchive(conf)} :
         sink' = [fs |-> w.sink, last |-> [op |-> "archive", err |-> w.err], calls |-> 0]
    /\ pc' = "sinkdone"
    /\ UNCHANGED <<conf, wres, file, tamper, opts, rres, walk, image, span, find, ring>>

SinkConfSet ==
    {MakeConf(20580, ae, <<>>, <<>>, nh, nt, [algo |-> EndingCipherNull, key |-> NoKey],
              EndPointerChecksumSHA256, fill) :
       ae \in 0..1, nh \in 0..1, nt \in 0..1, fill \in {FillSeek, FillZero, FillRandom}}

InitSink ==
    /\ conf \in SinkConfSet
    /\ wres = NotWritten
    /\ file = EmptyFile
    /\ tamper = NoTamper
    /\ opts = [PrivateKey |-> NoKey, Raw |-> FALSE]
    /\ pc = "sink"
    /\ rres = ReadFailed("none")
    /\ walk = WalkIdle
    /\ image = ImageFailed("none")
    /\ sink = [fs |-> NewSink(conf.FillMethod), last |-> [op |-> "none"], calls |-> 0]
    /\ span = NoSpan
    /\ find = NoFind
    /\ ring = NoRing

NextSink == SinkWrite \/ SinkSeek \/ SinkArchive

SpecSink == InitSink /\ [][NextSink]_vars

-----------------------------------------------------------------------------
(* splitEntries and parseEntry over spans of bytes.  A span is n bytes that *)
(* start with the entries es and go on with bytes of kind past; an entry    *)
(* may carry less payload than its schema, or a Length field below 20.      *)

\* The run is not in use
IdleRun ==
    /\ conf = MakeConf(20580, 0, <<>>, <<>>, 0, 1, [algo |-> EndingCipherNull, key |-> NoKey],
                       EndPointerChecksumSHA256, FillSeek)
    /\ wres = NotWritten
    /\ file = EmptyFile
    /\ tamper = NoTamper
    /\ opts = [PrivateKey |-> NoKey, Raw |-> FALSE]
    /\ rres = ReadFailed("none")
    /\ walk = WalkIdle
    /\ image = ImageFailed("none")

MaxSpanEntries == 2

\* An entry of TypeID id encoding vals whose payload is cut to size bytes
\* (size below 0 stands for a Length field below 20)
CutEntry(id, vals, size) == [id |-> id, vals |-> vals, size |-> size]

SpanEntries ==
    {CutEntry("IMAGE-AREA", <<7, 9>>, t) : t \in {-20, -1, 0, 3, 4, 6, 8}}
    \cup {CutEntry("ENDING", <<3, 5, 6, 2, 1, 4>>, t) : t \in {0, 16, 17, 19, 21}}
    \cup {CutEntry("ENDING-CIPHER", <<1, Bytes(5, NoKey)>>, t) : t \in {0, 2, 4, 9}}
    \cup {CutEntry("NO-MORE-IMAGES", <<>>, 0)}

\* The bytes the entries take in the span: a Length below 20 still comes in
\* a 20-byte TypeID and Length
SpanBytes(es) == SumSeq([i \in 1..Len(es) |-> Max(EntryLength(es[i]), 20)])

\* Entry sequences in which only the last may have a Length below 20
SpanSeqs ==
    {es \in UNION {[1..k -> SpanEntries] : k \in 1..MaxSpanEntries} :
       \A i \in 1..(Len(es) - 1) : es[i].size >= 0}

NotSplit == [err |-> "none", ents |-> <<>>]

NotParsed == [at |-> 0, r |-> [err |-> "none", vals |-> <<>>]]

InitEntry ==
    /\ IdleRun
    /\ pc = "span"
    /\ sink = NoSink
    /\ find = NoFind
    /\ ring = NoRing
    /\ \E es \in SpanSeqs, d \in {-1, 0, 4, 20}, past \in {"zero", "random"} :
          span = [es |-> es, n |-> SpanBytes(es) + d, past |-> past,
                  split |-> NotSplit, parsed |-> NotParsed]

\* splitEntries(data, start) on the span
SplitSpan ==
    /\ pc = "span"
    /\ span.split.err = "none"
    /\ span' = [span EXCEPT !.split = splitEntries(span.es, span.n, span.past)]
    /\ UNCHANGED <<conf, wres, file, tamper, opts, pc, rres, walk, image, sink, find, ring>>

\* parseEntry(ent, dest) on one of the entries splitEntries returned
ParseSpanEntry ==
    /\ pc = "span"
    /\ span.split.err = "ok"
    /\ span.parsed.at = 0
    /\ \E i \in 1..Len(span.split.ents) :
          span' = [span EXCEPT !.parsed = [at |-> i, r |-> parseEntry(span.split.ents[i])]]
    /\ UNCHANGED <<conf, wres, file, tamper, opts, pc, rres, walk, image, sink, find, ring>>

NextEntry == SplitSpan \/ ParseSpanEntry

SpecEntry == InitEntry /\ [][NextEntry]_vars

-----------------------------------------------------------------------------
(* findEnd step by step: the loop that starts one goroutine per            *)
(* END-POINTER-LOCA entry, the goroutines, the unbuffered channel send and  *)
(* the receiving loop.  A panic in a goroutine ends the process.            *)

MaxEndPointers == 3

\* A block infile.ReadAt cannot read whole (it lies beyond the end of file)
Unreadable == [k |-> "unreadable", chk |-> <<"unreadable">>, v |-> 0]

FindBlocks ==
    {makeEndPointer(p, a) : p \in {3, 5},
                            a \in {EndPointerChecksumSHA256, EndPointerChecksumCRC32}}
    \cup {Zeros, RandomBytes, Unreadable}

\* The values of EndPointerChec.Algo the archives handed in have
FindAlgos == 0..3

\* Bytes of the header that is checked
FindHeaderSize == 200

\* A header read from an archive with n end pointers in the blocks behind
\* the header, the image area behind them and the Null ending cipher
FindHeader(n, algo) ==
    [EmptyHeader EXCEPT !.EndPointerChec.Algo = algo,
                        !.EndPointerLoca = [i \in 1..n |-> [Blk |-> i]],
                        !.EndingSize.Size = 1,
                        !.ImageArea = [Start |-> n + 1, End |-> n + 3]]

\* A goroutine up to its send: 0 on a read error, a panic out of
\* computeEndPointerChecksum for an Algo it has no case for, else 0 on a
\* checksum mismatch and 512 times the stored value otherwise
TaskRun(c, algo) ==
    IF c = Unreadable THEN [st |-> "send", val |-> 0]
    ELSE IF computeEndPointerChecksum(0, algo) = <<"panic">> THEN [st |-> "panic", val |-> 0]
    ELSE [st |-> "send", val |-> BlockValue(c, algo)]

TaskIdle == [st |-> "none", val |-> 0]

InitFind ==
    /\ IdleRun
    /\ pc = "find"
    /\ sink = NoSink
    /\ span = NoSpan
    /\ ring = NoRing
    /\ \E n \in 0..MaxEndPointers, algo \in FindAlgos :
         \E blocks \in [1..n -> FindBlocks] :
            find = [pc |-> "check", algo |-> algo, blocks |-> blocks,
                    task |-> [i \in 1..n |-> TaskIdle],
                    spawned |-> 0, got |-> 0, bytePos |-> 0, err |-> "none"]

\* checkArchiveHeader at the end of readArchiveHeader: ExtractArchive goes on
\* to findEnd only with a header it returned no error for
FindCheck ==
    /\ pc = "find" /\ find.pc = "check"
    /\ \E chk \in {checkArchiveHeader(opts, FindHeader(Len(find.blocks), find.algo),
                                        FindHeaderSize)} :
         find' = [find EXCEPT !.pc = IF chk.errs = <<>> THEN "spawn" ELSE "rejected",
                              !.err = IF chk.errs = <<>> THEN "none" ELSE "bad header"]
    /\ UNCHANGED <<conf, wres, file, tamper, opts, pc, rres, walk, image, sink, span, ring>>

\* go func(at int64) {...}(BlockSize * int64(ent.Blk)) for the next entry
FindSpawn ==
    /\ pc = "find" /\ find.pc = "spawn"
    /\ find.spawned < Len(find.blocks)
    /\ find' = [find EXCEPT !.spawned = @ + 1, !.task[find.spawned + 1].st = "new"]
    /\ UNCHANGED <<conf, wres, file, tamper, opts, pc, rres, walk, image, sink, span, ring>>

\* The first loop is over; the receiving loop starts
FindSpawned ==
    /\ pc = "find" /\ find.pc = "spawn"
    /\ find.spawned = Len(find.blocks)
    /\ find' = [find EXCEPT !.pc = "recv"]
    /\ UNCHANGED <<conf, wres, file, tamper, opts, pc, rres, walk, image, sink, span, ring>>

\* A goroutine reads its block and checks it; it is then at its send, or it
\* panicked and the process is gone
TaskStep ==
    /\ pc = "find" /\ find.pc \in {"spawn", "recv"}
    /\ \E i \in 1..Len(find.task) :
         /\ find.task[i].st = "new"
         /\ \E r \in {TaskRun(find.blocks[i], find.algo)} :
              find' = [find EXCEPT !.task[i] = r,
                                   !.pc = IF r.st = "panic" THEN "crashed" ELSE @]
    /\ UNCHANGED <<conf, wres, file, tamper, opts, pc, rres, walk, image, sink, span, ring>>

\* a := <-send meets the send of one goroutine, which then returns
FindReceive ==
    /\ pc = "find" /\ find.pc = "recv"
    /\ find.got < Len(find.blocks)
    /\ \E i \in 1..Len(find.task) :
         /\ find.task[i].st = "send"
         /\ find' = [find EXCEPT !.task[i].st = "done",
                                  !.got = @ + 1,
                                  !.bytePos = MaxOf(<<find.task[i].val>>, @)]
    /\ UNCHANGED <<conf, wres, file, tamper, opts, pc, rres, walk, image, sink, span, ring>>

\* findEnd returns bytePos and ExtractArchive tests it against 0
FindReturn ==
    /\ pc = "find" /\ find.pc = "recv"
    /\ find.got = Len(find.blocks)
    /\ find' = [find EXCEPT !.pc = "returned",
                             !.err = IF find.bytePos = 0 THEN "no valid end pointer" ELSE "ok"]
    /\ UNCHANGED <<conf, wres, file, tamper, opts, pc, rres, walk, image, sink, span, ring>>

NextFind == FindCheck \/ FindSpawn \/ FindSpawned \/ TaskStep \/ FindReceive \/ FindReturn

SpecFind == InitFind /\ [][NextFind]_vars

-----------------------------------------------------------------------------
(* The random source: RandReaderInit and the ring of writeRandWorker        *)
(* goroutines around one io.Pipe.  Worker i waits on channel ch[i] and      *)
(* passes the token on through the channel of the worker behind it; the     *)
(* first channel is chFirst.  rand.Read and aes.NewCipher are taken to      *)
(* succeed, and the read end of the pipe is never closed.                   *)

MaxCPU == 2

\* Reads the consumer needs to drain one buffer from the pipe
BufReads == 2

\* make(chan struct{}, 1)
ChanCap == 1

Workers == 1..(MaxCPU + 1)

\* A worker that hands the token back to itself
DoneOfSelf(i, n) == i

\* The channel worker i of n sends on when its Write is over: the start
\* channel of the next worker, chFirst for the last
DoneOf(i, n) == (i % n) + 1

PipeIdle == [from |-> 0, left |-> 0]

InitRing ==
    /\ IdleRun
    /\ pc = "ring"
    /\ sink = NoSink
    /\ span = NoSpan
    /\ find = NoFind
    /\ \E cpu \in 1..MaxCPU :
         ring = [pc |-> "init", n |-> cpu + 1, spawned |-> 0,
                 ch |-> [i \in 1..(cpu + 1) |-> 0],
                 w |-> [i \in 1..(cpu + 1) |-> "none"],
                 pipe |-> PipeIdle, last |-> 0]

\* go writeRandWorker(writer, chi, t), the last one with chFirst as done
RingSpawn ==
    /\ pc = "ring" /\ ring.pc = "init"
    /\ ring.spawned < ring.n
    /\ ring' = [ring EXCEPT !.spawned = @ + 1, !.w[ring.spawned + 1] = "xor"]
    /\ UNCHANGED <<conf, wres, file, tamper, opts, pc, rres, walk, image, sink, span, find>>

\* chFirst <- struct{}{}
RingStart ==
    /\ pc = "ring" /\ ring.pc = "init"
    /\ ring.spawned = ring.n
    /\ ring.ch[1] < ChanCap
    /\ ring' = [ring EXCEPT !.ch[1] = @ + 1, !.pc = "run"]
    /\ UNCHANGED <<conf, wres, file, tamper, opts, pc, rres, walk, image, sink, span, find>>

\* streamCipher.XORKeyStream(buf, buf)
Randomize(i) ==
    /\ pc = "ring" /\ i \in 1..ring.n
    /\ ring.w[i] = "xor"
    /\ ring' = [ring EXCEPT !.w[i] = "wait"]
    /\ UNCHANGED <<conf, wres, file, tamper, opts, pc, rres, walk, image, sink, span, find>>

\* <-start
TakeToken(i) ==
    /\ pc = "ring" /\ i \in 1..ring.n
    /\ ring.w[i] = "wait"
    /\ ring.ch[i] > 0
    /\ ring' = [ring EXCEPT !.ch[i] = @ - 1, !.w[i] = "write"]
    /\ UNCHANGED <<conf, wres, file, tamper, opts, pc, rres, walk, image, sink, span, find>>

\* w.Write(buf) gets the pipe: one Write at a time goes through
PipeWrite(i) ==
    /\ pc = "ring" /\ i \in 1..ring.n
    /\ ring.w[i] = "write"
    /\ ring.pipe.from = 0
    /\ ring' = [ring EXCEPT !.pipe = [from |-> i, left |-> BufReads], !.last = i]
    /\ UNCHANGED <<conf, wres, file, tamper, opts, pc, rres, walk, image, sink, span, find>>

\* The consumer (io.CopyN in writeRandom) reads part of the buffer offered
ConsumerRead ==
    /\ pc = "ring"
    /\ ring.pipe.from # 0 /\ ring.pipe.left > 0
    /\ ring' = [ring EXCEPT !.pipe.left = @ - 1]
    /\ UNCHANGED <<conf, wres, file, tamper, opts, pc, rres, walk, image, sink, span, find>>

\* w.Write(buf) returns once the whole buffer was read
WriteReturns(i) ==
    /\ pc = "ring" /\ i \in 1..ring.n
    /\ ring.w[i] = "write"
    /\ ring.pipe = [from |-> i, left |-> 0]
    /\ ring' = [ring EXCEPT !.pipe = PipeIdle, !.w[i] = "pass"]
    /\ UNCHANGED <<conf, wres, file, tamper, opts, pc, rres, walk, image, sink, span, find>>

\* done <- struct{}{} and back to the top of the loop
PassToken(i) ==
    /\ pc = "ring" /\ i \in 1..ring.n
    /\ ring.w[i] = "pass"
    /\ ring.ch[DoneOf(i, ring.n)] < ChanCap
    /\ ring' = [ring EXCEPT !.ch[DoneOf(i, ring.n)] = @ + 1, !.w[i] = "xor"]
    /\ UNCHANGED <<conf, wres, file, tamper, opts, pc, rres, walk, image, sink, span, find>>

\* One step of worker i
WorkerStep(i) ==
    Randomize(i) \/ TakeToken(i) \/ PipeWrite(i) \/ WriteReturns(i) \/ PassToken(i)

NextRing ==
    \/ RingSpawn
    \/ RingStart
    \/ ConsumerRead
    \/ \E i \in Workers : Randomize(i)
    \/ \E i \in Workers : TakeToken(i)
    \/ \E i \in Workers : PipeWrite(i)
    \/ \E i \in Workers : WriteReturns(i)
    \/ \E i \in Workers : PassToken(i)

SpecRing == InitRing /\ [][NextRing]_vars

\* Every goroutine that can run is run in the end, and the consumer keeps
\* reading
SpecRingFair ==
    /\ SpecRing
    /\ WF_vars(RingSpawn) /\ WF_vars(RingStart)
    /\ WF_vars(ConsumerRead)
    /\ \A i \in Workers : WF_vars(WorkerStep(i))

-----------------------------------------------------------------------------
(* Properties of the written archive and of reading it back *)

\* The archive was written without error
WroteOk == pc # "start" /\ wres.err = "ok"

\* A configuration the reader can accept: at least one end pointer
Legal == conf.EndPointersHead + conf.EndPointersTail >= 1

\* The byte offset the writer's end pointers are meant to give
SentinelEnd == BlockSize * (wres.header.ImageArea.Start + wres.header.EndingSize.Size)

\* C1: for every legal configuration for which WriteEmptyArchive succeeds,
\* ExtractArchive on the untouched bytes passes header validation, findEnd
\* returns (ImageArea.Start + EndingSize)*512, the first readEnding reports
\* NO-MORE-IMAGES and extraction succeeds with zero images
C1_EmptyArchiveExtracts ==
    (pc = "done" /\ WroteOk /\ Legal /\ tamper = NoTamper)
      => /\ rres.err = "ok"
         /\ walk.err = "ok"
         /\ walk.index = 0
         /\ walk.endAt = SentinelEnd

\* C2: the EndingSize the writer records is a block count: 1 for the Null
\* cipher, ceil(modulus bytes / 512) for RSA, and so at most 32
C2_EndingSizeInBlocks ==
    (pc # "start" /\ wres.err \in {"ok", "not enough space"})
      => /\ wres.header.EndingSize.Size =
              (IF conf.EndingCipher = EndingCipherNull THEN 1
               ELSE CeilDiv(conf.PublicKeyRSA.size, BlockSize))
         /\ wres.header.EndingSize.Size <= maxEndingSize

\* The block ranges [s, e) the writer assigns: header, global logs, end
\* pointers (head then tail), sentinel ending
Regions ==
    <<[s |-> 0, e |-> CeilDiv(wres.layout.headerSize, BlockSize)]>>
    \o [i \in 1..Len(wres.header.GlobalLogLocat) |->
          [s |-> wres.header.GlobalLogLocat[i].Start,
           e |-> wres.header.GlobalLogLocat[i].Start + wres.header.GlobalLogLocat[i].Count]]
    \o [i \in 1..Len(wres.header.EndPointerLoca) |->
          [s |-> wres.header.EndPointerLoca[i].Blk,
           e |-> wres.header.EndPointerLoca[i].Blk + 1]]
    \o <<[s |-> wres.header.ImageArea.Start,
          e |-> wres.header.ImageArea.Start + wres.header.EndingSize.Size]>>

\* C3: when WriteEmptyArchive does not fail for lack of space, the block
\* ranges of the header, each global log, each head end pointer, the
\* sentinel ending and each tail end pointer are pairwise disjoint and lie
\* inside [0, DiskSize)
C3_LayoutDisjoint ==
    (pc # "start" /\ wres.err # "not enough space")
      => LET r == Regions
         IN /\ \A i \in 1..Len(r) :
                 0 <= r[i].s /\ r[i].s <= r[i].e /\ BlockSize * r[i].e <= conf.DiskSize
            /\ \A i \in 1..Len(r) : \A j \in (i + 1)..Len(r) :
                 r[i].e <= r[j].s \/ r[j].e <= r[i].s

C3_Witness ==
    /\ WroteOk
    /\ conf.EndPointersHead = MaxHead /\ conf.EndPointersTail = MaxTail
    /\ Len(conf.GlobalLogs) = 2
    /\ conf.EndingCipher = EndingCipherRSA
    /\ conf.AlignmentBlocks = Pow2(MaxAlignExp)

\* C4 as stated: with any one end-pointer block of a written archive zeroed
\* (any two when there are three head and three tail blocks) findEnd still
\* returns the end the untouched archive gives
C4_AnyBlockZeroed ==
    (WroteOk /\ pc = "written"
       /\ (Cardinality(tamper.zeroed) = 1
           \/ (Cardinality(tamper.zeroed) = 2 /\ conf.EndPointersHead = 3
               /\ conf.EndPointersTail = 3)))
      => findEnd(file, wres.header) = SentinelEnd

\* C4, amended: with end-pointer blocks zeroed and at least one of them left
\* untouched, findEnd still returns the end the untouched archive gives
C4_ZeroedBlocksTolerated ==
    (WroteOk /\ pc = "written"
       /\ tamper.zeroed # {}
       /\ Cardinality(tamper.zeroed) < Len(wres.header.EndPointerLoca))
      => findEnd(file, wres.header) = SentinelEnd

C4_Witness ==
    /\ pc = "walk"
    /\ Cardinality(tamper.zeroed) = 2
    /\ conf.EndPointersHead = 3 /\ conf.EndPointersTail = 3
    /\ walk.endAt = SentinelEnd

\* C9: for every legal configuration for which WriteEmptyArchive succeeds,
\* readArchiveHeader on the written bytes succeeds with EndPointerChec,
\* EndingCipher.Algo, GlobalLogLocat, ImageArea, ImageBasic and EndPointerLoca
\* equal to what the writer computed, and the stored checksum is the SHA-256
\* of the header with the checksum field zeroed
C9_HeaderRoundTrip ==
    (pc \in {"header", "walk", "done"} /\ WroteOk /\ Legal /\ tamper = NoTamper)
      => /\ rres.err = "ok"
         /\ rres.header.EndPointerChec = wres.header.EndPointerChec
         /\ rres.header.EndingCipher.Algo = wres.header.EndingCipher.Algo
         /\ rres.header.GlobalLogLocat = wres.header.GlobalLogLocat
         /\ rres.header.ImageArea = wres.header.ImageArea
         /\ rres.header.ImageBasic = wres.header.ImageBasic
         /\ rres.header.EndPointerLoca = wres.header.EndPointerLoca
         /\ file.hdr.checksum =
              Sha256(HashedBytes(file.hdr, wres.layout.headerSize, <<>>))

-----------------------------------------------------------------------------
(* Properties of reading a damaged or extended header *)

\* readArchiveHeader has run
HeaderWasRead == pc \in {"header", "walk", "done"}

\* C5 as stated: with any one bit of a written header outside [20, 52)
\* changed, readArchiveHeader fails and reports the bad-checksum error
C5_FlipGivesBadChecksum ==
    (HeaderWasRead /\ tamper.flip # <<>>) => rres.err = "bad checksum"

\* C5, amended: with any one bit of a written header outside [20, 52)
\* changed, readArchiveHeader fails; a bit of the magic TypeID gives the
\* bad-magic error, a bit of the first entry's Length or of HeaderLength
\* gives bad checksum or the error of a size check or short read that comes
\* before the checksum, and any other bit gives bad checksum
C5_FlipFailsRead ==
    (HeaderWasRead /\ tamper.flip # <<>>)
      => /\ rres.err # "ok"
         /\ tamper.flip[1] < 16 => rres.err = "bad magic number"
         /\ tamper.flip[1] \in 16..19
              => rres.err \in {"bad entry size", "bad header size", "bad checksum"}
         /\ tamper.flip[1] \in 52..55
              => rres.err \in {"bad header size", "header size too big", "EOF",
                               "bad checksum"}
         /\ tamper.flip[1] >= 56 => rres.err = "bad checksum"

C5_Witness ==
    /\ HeaderWasRead
    /\ tamper.flip # <<>>
    /\ tamper.flip[1] >= 56
    /\ rres.err = "bad checksum"

\* C6: with an entry of an unregistered TypeID and any well-formed Length
\* inserted among the entries of a valid header (HeaderLength adjusted,
\* checksum recomputed), readArchiveHeader succeeds, binds every field as
\* before the insertion and reports the entry as one 'unknown entry' warning
C6_UnknownEntrySkipped ==
    (HeaderWasRead /\ tamper.inserted # <<>>
       /\ readArchiveHeader(wres.file, opts).err = "ok")
      => /\ rres.err = "ok"
         /\ rres.header = readArchiveHeader(wres.file, opts).header
         /\ rres.warns = <<<<"unknown entry", "FUTURE-ENTRY">>>>
                           \o readArchiveHeader(wres.file, opts).warns

-----------------------------------------------------------------------------
(* Properties of the walk over the endings and of the images it extracts *)

\* What readEnding gives at the walk's endAt
EndingRead == readEnding(walk.endAt, file, opts, rres.header)

\* C7: for every image extractImage converts without error, the QCOW2 header
\* has cluster_bits in [9, 30] and L1Size twice the number of top-level index
\* entries, and every non-zero L1 entry has its top bit set and an offset
\* inside the bytes written to the output
C7_Qcow2Valid ==
    (image.err = "ok" /\ ~image.raw)
      => /\ image.ClusterBits \in 9..30
         /\ image.L1Size = 2 * Len(image.l1Data)
         /\ \A i \in 1..Len(image.l1) :
              image.l1[i] # L1Entry(FALSE, 0)
                => image.l1[i].top /\ image.l1[i].off < image.written

\* C8: in the loop of ExtractArchive endAt strictly decreases from one
\* iteration to the next and never goes below zero, whatever the Prev fields
\* point to: an iteration that would not lower endAt ends the walk with an
\* error, so that no ending is visited twice and the walk is finite
C8_WalkDecreases ==
    [][pc = "walk"
         => /\ pc' = "walk" => (0 <= walk'.endAt /\ walk'.endAt < walk.endAt)
            /\ (walk'.reads > walk.reads /\ EndingRead.err = "ok" /\ image'.err = "ok"
                 /\ BlockSize * EndingRead.ending.Ending.Prev >= walk.endAt)
                 => (pc' = "done" /\ walk'.err = "ending does not point backwards")]_vars

C8_Witness ==
    /\ pc = "done"
    /\ walk.index = 1
    /\ walk.err = "ending does not point backwards"
    /\ tamper.images = MaxImages

\* C10: at the top of each iteration endAt is compared with
\* ImageArea.Start*512: when equal the walk stops and ExtractArchive
\* succeeds, when less ExtractArchive returns an error, and only when
\* greater is an ending read
C10_TopOfLoop ==
    [][pc = "walk"
         => /\ walk.endAt = BlockSize * rres.header.ImageArea.Start
                 => (walk'.err = "ok" /\ walk'.reads = walk.reads)
            /\ walk.endAt < BlockSize * rres.header.ImageArea.Start
                 => (walk'.err \notin {"ok", "running"} /\ walk'.reads = walk.reads)
            /\ walk.endAt > BlockSize * rres.header.ImageArea.Start
                 => walk'.reads = walk.reads + 1]_vars

-----------------------------------------------------------------------------
(* Properties of the fill writer and of the bytes it leaves *)

\* C11: after WriteEmptyArchive returns success on an empty output, the
\* output's length is exactly DiskSize, for each fill method and every
\* head/tail end-pointer count
C11_LengthIsDiskSize ==
    WroteOk => wres.file.len = conf.DiskSize

\* C11 for the fill methods that write the gaps: Zero and Random
C11_FilledLength ==
    (WroteOk /\ conf.FillMethod # FillSeek) => wres.file.len = conf.DiskSize

\* A Seek that asks for the position the fillSeeker tracks
AsksCurrent(fs, offset, whence) ==
    (whence = "start" /\ offset = fs.pos) \/ (whence = "current" /\ offset = 0)

\* C12: in every fill mode a Seek that asks for the current position returns
\* the tracked position and leaves the tracked position and the underlying
\* sink as they were (no Write, no Seek on it); with Zero or Random fill a
\* whole WriteEmptyArchive run makes no Seek on the underlying output
C12_NoOpSeek ==
    [][pc = "sink"
         => /\ (sink'.last.op = "seek"
                 /\ AsksCurrent(sink.fs, sink'.last.offset, sink'.last.whence))
                 => /\ sink'.fs = sink.fs
                    /\ sink'.last.err = "ok"
                    /\ sink'.last.ret = sink.fs.pos
            /\ (sink'.last.op = "archive" /\ sink'.fs.method # FillSeek)
                 => sink'.fs.seeks = 0]_vars

C12_Witness ==
    /\ pc = "sink"
    /\ sink.last.op = "seek" /\ sink.last.whence = "start"
    /\ sink.last.offset = sink.fs.pos /\ sink.fs.pos = 512
    /\ sink.fs.method = FillSeek
    /\ sink.fs.seeks = 0 /\ Len(sink.fs.ext) = 1

\* Bytes handed to the underlying sink
Handed(fs) == SumSeq([i \in 1..Len(fs.ext) |-> fs.ext[i].n])

\* C13: in Zero and Random fill modes a Seek to before the tracked position
\* returns an error and leaves the tracked position and the sink unchanged,
\* and the tracked position always equals the bytes handed to the sink; in
\* Seek mode the backward Seek is forwarded to the sink and the tracked
\* position becomes the position the sink reports
C13_BackwardSeek ==
    [][pc = "sink"
         => /\ sink'.fs.method # FillSeek => sink'.fs.pos = Handed(sink'.fs)
            /\ (sink'.last.op = "seek"
                 /\ SeekTarget(sink.fs, sink'.last.offset, sink'.last.whence) < sink.fs.pos)
                 => IF sink.fs.method # FillSeek
                    THEN sink'.last.err # "ok" /\ sink'.fs = sink.fs
                    ELSE /\ sink'.fs.seeks = sink.fs.seeks + 1
                         /\ sink'.fs.ext = sink.fs.ext
                         /\ sink'.last.err = "ok"
                              => sink'.fs.pos = SeekTarget(sink.fs, sink'.last.offset,
                                                           sink'.last.whence)]_vars

C13_Witness ==
    /\ pc = "sink"
    /\ sink.fs.method = FillZero
    /\ sink.last.op = "seek" /\ sink.last.err = "fill backwards"
    /\ sink.fs.pos = 1024 /\ Len(sink.fs.ext) = 2

-----------------------------------------------------------------------------
(* Properties of entry decoding *)

\* Offsets at which a field of the schema starts or the fixed fields end
Boundaries(sch) == {SumSeq(SubSeq(sch, 1, k)) : k \in 0..Len(sch)}

\* The payload of size bytes ends on a field boundary of the schema
OnBoundary(size, sch) ==
    \/ size \in Boundaries(sch)
    \/ (sch # <<>> /\ sch[Len(sch)] = 0 /\ size >= SumSeq(sch))

\* What binding the fields present in e gives: a fixed field lying whole in
\* the payload has its value, a byte slice what is left, the others zero
BoundPrefix(e, sch) ==
    [i \in 1..Len(sch) |->
       IF sch[i] = 0
       THEN IF e.size > SumSeq(sch) THEN Bytes(e.size - SumSeq(sch), e.vals[i].v) ELSE NoBytes
       ELSE IF SumSeq(SubSeq(sch, 1, i)) <= e.size THEN e.vals[i] ELSE 0]

\* The entry parseEntry was applied to
ParsedEntry == span.split.ents[span.parsed.at]

\* C14: parseEntry on a payload shorter than its struct: when the payload
\* ends exactly on a field boundary (an empty payload included) no error is
\* returned, the fields present are bound and the others keep their zero
\* values; when it ends in the middle of a field the result is BadEntry.
C14_TruncatedPayload ==
    (pc = "span" /\ span.parsed.at > 0) =>
        IF OnBoundary(ParsedEntry.size, Schema(ParsedEntry.id))
        THEN /\ span.parsed.r.err = "ok"
             /\ span.parsed.r.vals = BoundPrefix(ParsedEntry, Schema(ParsedEntry.id))
        ELSE span.parsed.r.err = "bad entry"

\* The part of C14 the code keeps: a payload ending inside a field is
\* BadEntry, and so is one that ends before a fixed field
C14_MissingFieldIsBad ==
    (pc = "span" /\ span.parsed.at > 0) =>
        (span.parsed.r.err = "ok" <=> ParsedEntry.size >= SumSeq(Schema(ParsedEntry.id)))

\* C15: splitEntries over any span ends with the entries bucketed or with
\* BadEntry: success exactly when the entries fill the span, each with a
\* Length of at least 20; an entry whose Length is below 20 or beyond the
\* bytes left is rejected with BadEntry.
C15_SplitEndsOrBadEntry ==
    (pc = "span" /\ span.split.err # "none") =>
        /\ span.split.err \in {"ok", "bad entry"}
        /\ span.split.err = "ok" <=>
              /\ \A i \in 1..Len(span.es) : span.es[i].size >= 0
              /\ TotalLength(span.es) = span.n
        /\ span.split.err = "ok" => span.split.ents = span.es

\* The part of C15 the code keeps: a span whose entries all have a Length of
\* at least 20 and that is not followed by zero bytes is split or rejected
C15_WellFormedLengths ==
    (pc = "span" /\ span.split.err # "none"
       /\ (\A i \in 1..Len(span.es) : span.es[i].size >= 0)
       /\ span.past # "zero") =>
        span.split.err \in {"ok", "bad entry"}
-----------------------------------------------------------------------------
(* Properties of findEnd *)

\* What the end pointer in block c contributes: 0 when it cannot be read or
\* its checksum does not match, else the byte offset it gives
Contribution(c, algo) ==
    IF c = Unreadable \/ c.k # "ep" \/ c.chk # <<(IF algo = EndPointerChecksumSHA256
                                                  THEN "sha256" ELSE "crc32c"), c.v>>
    THEN 0 ELSE BlockSize * c.v

Contributions == [i \in 1..Len(find.blocks) |-> Contribution(find.blocks[i], find.algo)]

\* findEnd came back holding the largest contribution, every task having
\* sent once and ended, and ExtractArchive fails exactly on 0
ReturnedRight ==
    find.pc = "returned" =>
        /\ \A i \in 1..Len(find.task) : find.task[i].st = "done"
        /\ find.got = Len(find.blocks)
        /\ \A i \in 1..Len(find.blocks) : find.bytePos >= Contributions[i]
        /\ find.bytePos = 0 \/ \E i \in 1..Len(find.blocks) : find.bytePos = Contributions[i]
        /\ find.err = "no valid end pointer" <=> find.bytePos = 0

\* C16: findEnd starts one task per end pointer, every task delivers exactly
\* one contribution (none is lost to a panic), and findEnd returns only after
\* receiving all: the result is the largest contribution whatever the order
\* of the tasks, no task is left blocked, and ExtractArchive fails with "no
\* valid end pointer" exactly when the result is 0.
C16_FindEndJoinsAll ==
    pc = "find" =>
        /\ find.pc # "crashed"
        /\ \A i \in 1..Len(find.task) : find.task[i].st # "panic"
        /\ ReturnedRight

\* The part of C16 the code keeps: with a checksum algorithm findEnd has a
\* case for, every interleaving returns the largest contribution
C16_SupportedAlgoJoinsAll ==
    (pc = "find" /\ find.algo \in {EndPointerChecksumSHA256, EndPointerChecksumCRC32}) =>
        /\ find.pc # "crashed"
        /\ ReturnedRight

\* A run in which the tasks were received out of order and the larger value
\* came first
C16_OutOfOrder ==
    /\ pc = "find" /\ find.pc = "returned"
    /\ Len(find.blocks) = 3
    /\ find.bytePos = 2560
    /\ Contributions = <<1536, 2560, 0>>
-----------------------------------------------------------------------------
(* Properties of the end pointers and of the converted image *)

\* What the written file holds at end-pointer location i of the header
EndPointerBlock(i) == ContentAt(wres.file, BlockSize * wres.header.EndPointerLoca[i].Blk)

\* Every end-pointer location holds one and the same end-pointer block,
\* whose checksum covers the value it stores
SameBlockEverywhere ==
    \A i \in 1..Len(wres.header.EndPointerLoca) :
        /\ EndPointerBlock(i).k = "ep"
        /\ EndPointerBlock(i).chk =
             computeEndPointerChecksum(EndPointerBlock(i).v, conf.EndPointerChecksum)
        /\ EndPointerBlock(i) = EndPointerBlock(1)

\* C17 as stated: the value at [32, 36) of every end-pointer block written
\* by WriteEmptyArchive is the byte offset (imgAreaStart + EndingSize)*512,
\* and all head and tail copies are the same block.
C17_PointerInBytes ==
    WroteOk =>
        /\ SameBlockEverywhere
        /\ \A i \in 1..Len(wres.header.EndPointerLoca) :
             EndPointerBlock(i).v =
               BlockSize * (wres.header.ImageArea.Start + wres.header.EndingSize.Size)

\* C17, amended: the value at [32, 36) of every end-pointer block written by
\* WriteEmptyArchive is the block number imgAreaStart + EndingSize of the end
\* of the sentinel ending, and all head and tail copies are the same block.
C17_PointerInBlocks ==
    WroteOk =>
        /\ SameBlockEverywhere
        /\ \A i \in 1..Len(wres.header.EndPointerLoca) :
             EndPointerBlock(i).v =
               wres.header.ImageArea.Start + wres.header.EndingSize.Size

C17_Witness ==
    /\ WroteOk
    /\ conf.EndPointersHead = 2 /\ conf.EndPointersTail = 2
    /\ conf.EndPointerChecksum = EndPointerChecksumCRC32
    /\ EndPointerBlock(4).v > 1
\* The converted image, its cluster size and the L2 source clusters its
\* top-level array names, sorted
Converted == image.err = "ok" /\ ~image.raw

ClusterSize == Pow2(image.ClusterBits)

L2AtSrc == SortInts(SelectSeq(image.l1Data, LAMBDA v : v >= 0))

\* Where source cluster c starts in the archive, and the output offset the
\* emitted tables give it
SourceOf(c) == image.clusters + c * ClusterSize

AddressOf(c) == image.base + (countL2TablesBefore(L2AtSrc, c) + c) * ClusterSize

\* C18: for an image whose top-level array names k >= 1 distinct L2 source
\* clusters, the table read and doubled for each l2 in sorted order is source
\* cluster l2, its two output clusters start where the L1 entries [2i, 2i+1]
\* say, (1 + L1_clusters + countL2Before(l2) + l2)*cluster_size, and the data
\* clusters in front of and behind each table are copied from their own
\* source clusters to the offsets the L2 entries give them.
C18_WritesAgreeWithAddresses ==
    (Converted /\ Len(L2AtSrc) >= 1
       /\ \A i, j \in 1..Len(L2AtSrc) : i # j => L2AtSrc[i] # L2AtSrc[j]) =>
        /\ Len(image.tables) = Len(L2AtSrc)
        /\ \A i \in 1..Len(image.tables) :
             /\ image.tables[i].src = SourceOf(L2AtSrc[i])
             /\ image.tables[i].dst = AddressOf(L2AtSrc[i])
             /\ image.tables[i].from =
                  SourceOf(IF i = 1 THEN 0 ELSE L2AtSrc[i - 1] + 1)
        /\ \A j \in 1..Len(image.l1Data) :
             image.l1Data[j] >= 0 =>
               /\ image.l1[2 * j - 1] = L1Entry(TRUE, AddressOf(image.l1Data[j]))
               /\ image.l1[2 * j] = L1Entry(TRUE, AddressOf(image.l1Data[j]) + ClusterSize)
        /\ image.rest = SourceOf(L2AtSrc[Len(L2AtSrc)] + 1)

\* The part of C18 the code keeps: the first table read is its own source
\* cluster, it is written where the L1 entries say, and the data clusters in
\* front of it are copied from their own source clusters
C18_FirstTableRight ==
    (Converted /\ Len(L2AtSrc) >= 1) =>
        /\ image.tables[1].src = SourceOf(L2AtSrc[1])
        /\ image.tables[1].dst = AddressOf(L2AtSrc[1])
        /\ image.tables[1].from = SourceOf(0)

\* With clusters of 4096 bytes the second table is read from the cluster
\* behind its own and written one cluster behind the offset its L1 entry gives
C18_SecondTableLate ==
    /\ Converted /\ image.ClusterBits = 12
    /\ L2AtSrc = <<0, 1>>
    /\ image.tables[1].src = SourceOf(0)
    /\ image.tables[2].from = SourceOf(1)
    /\ image.tables[2].src = SourceOf(2)
    /\ image.tables[2].dst = AddressOf(1) + ClusterSize

\* C19: in the synthesized QCOW2 file the refcount table occupies cluster 1,
\* the L1 table starts at cluster 2 and the L2/data area at cluster
\* 2 + L1_clusters: RefcountTableOffset and L1TableOffset name different
\* clusters, and the three areas do not overlap.
C19_RefcountL1DataApart ==
    Converted =>
        /\ image.RefcountTableOffset = ClusterSize
        /\ image.L1TableOffset = 2 * ClusterSize
        /\ image.base = (2 + CeilDiv(8 * image.L1Size, ClusterSize)) * ClusterSize
        /\ image.RefcountTableOffset # image.L1TableOffset
        /\ image.RefcountTableOffset + ClusterSize <= image.L1TableOffset
        /\ image.L1TableOffset + 8 * image.L1Size <= image.base

\* The part of C19 the code keeps: the L1 table starts at cluster 1 and the
\* L2/data area follows it at cluster 1 + L1_clusters
C19_L1ThenData ==
    Converted =>
        /\ image.L1TableOffset = ClusterSize
        /\ image.base = (1 + CeilDiv(8 * image.L1Size, ClusterSize)) * ClusterSize
        /\ image.L1TableOffset + 8 * image.L1Size <= image.base
-----------------------------------------------------------------------------
(* Properties of the random source *)

\* Tokens lying in the channels, and tokens held by workers between <-start
\* and done <-
TokensInChannels == SumSeq([i \in 1..ring.n |-> ring.ch[i]])

TokenHolders == {i \in 1..ring.n : ring.w[i] \in {"write", "pass"}}

\* Once RandReaderInit is over there is one token, at most one worker is in
\* Write, and a worker about to pass the token on finds room in the channel
OneToken ==
    (pc = "ring" /\ ring.pc = "run") =>
        /\ TokensInChannels + Cardinality(TokenHolders) = 1
        /\ Cardinality({i \in 1..ring.n : ring.w[i] = "write"}) <= 1
        /\ \A i \in 1..ring.n :
             ring.w[i] = "pass" => ring.ch[DoneOf(i, ring.n)] < ChanCap

\* Writes go round the ring in order, starting with the first worker, and a
\* buffer is randomized only while the pipe is not offering it
RingOrder ==
    pc = "ring" =>
        \A i \in 1..ring.n :
            /\ (ring'.pipe.from = i /\ ring.pipe.from # i) =>
                  i = (IF ring.last = 0 THEN 1 ELSE (ring.last % ring.n) + 1)
            /\ (ring.w[i] = "xor" /\ ring'.w[i] = "wait") => ring.pipe.from # i

\* C20: in the ring started by RandReaderInit exactly one token exists at all
\* times, so at most one producer is inside the pipe Write; producers write in
\* ring order; a producer re-randomizes its buffer only after its own Write
\* has returned; no producer blocks when passing the token on; and as long as
\* the consumer keeps reading, every producer writes again and again.
C20_RingToken ==
    /\ []OneToken
    /\ [][RingOrder]_vars
    /\ \A i \in Workers : []<>(pc = "ring" => (i > ring.n \/ ring.pipe.from = i))

C20_Witness ==
    /\ pc = "ring" /\ ring.pc = "run"
    /\ ring.n = MaxCPU + 1
    /\ ring.last = ring.n
    /\ ring.pipe = PipeIdle
    /\ ring.w[1] = "wait" /\ ring.w[2] = "xor" /\ ring.w[ring.n] = "pass"
-----------------------------------------------------------------------------
(* Properties of the header checks *)

\* The header went through checkArchiveHeader without error
PassedCheck == pc = "find" /\ find.pc \notin {"check", "rejected"}

\* C21: every EndPointerChec.Algo that checkArchiveHeader lets through is one
\* computeEndPointerChecksum supports, so no task of findEnd reaches the
\* "unrecognized checksum type" panic for a header that passed the check (not
\* for Algo = 2 either).
C21_PassedAlgoSupported ==
    PassedCheck =>
        /\ computeEndPointerChecksum(0, find.algo) # <<"panic">>
        /\ find.pc # "crashed"
        /\ \A i \in 1..Len(find.task) : find.task[i].st # "panic"

\* The part of C21 the code keeps: an Algo above 2 is rejected, and Algo 0
\* and 1 pass and never panic
C21_AboveTwoRejected ==
    pc = "find" =>
        /\ (find.algo > 2 /\ find.pc # "check") => find.pc = "rejected"
        /\ (find.algo < 2 /\ find.pc # "check") => find.pc \notin {"crashed"}
\* The header read declares RSA and the caller gave no private key
RsaWithoutKey == HeaderWasRead /\ tamper.key # "none" /\ opts.PrivateKey = NoKey

\* C22: whenever the header declares EndingCipher = RSA and the caller
\* supplied no private key, readArchiveHeader returns an error, whatever the
\* header's public-key bytes are (valid, empty or unparsable), so readEnding
\* never attempts RSA decryption with a missing private key.
C22_RsaNeedsPrivateKey ==
    RsaWithoutKey =>
        /\ rres.err # "ok"
        /\ walk.err # "panic"

\* The part of C22 the code keeps: with key bytes that parse as a public key
\* and no private key, readArchiveHeader returns an error
C22_ParsableKeyNeedsPrivateKey ==
    (RsaWithoutKey /\ tamper.key \in {"valid", "other"}) =>
        /\ rres.err = "bad header"
        /\ walk.err # "panic"

\* Key bytes that do not parse let the header through without a private key,
\* and readEnding then calls rsa.DecryptOAEP with a nil key
C22_NilKeyDecrypt ==
    /\ RsaWithoutKey /\ tamper.key = "garbage"
    /\ rres.err = "ok"
    /\ pc = "done" /\ walk.err = "panic"
====
